---- MODULE Spec2Model ----
(***************************************************************************)
(* Asynchronous batch-grading job subsystem of SmartAI_v1                  *)
(* (backend/routers/ai_grading.py): the request handlers start_grading,    *)
(* start_batch_grading and get_grading_result, the job threads             *)
(* run_grading_task and run_batch_grading_task, the per-student pool of    *)
(* process_student_submission and the per-answer routine                   *)
(* process_student_answer.                                                 *)
(*                                                                         *)
(* Numbers: a score is a whole number of points (10.0 is 10), a confidence *)
(* is counted in tenths (0.5 is 5, 1.0 is 10).  An f-string is the tuple   *)
(* of its pieces, so that "contains 'not found'" is a test on a piece.     *)
(* A uuid4 job id is the next unused number.  The question types are       *)
(* written in pinyin: gainianti (concept), jisuanti (calculation),         *)
(* zhengmingti (proof), bianchengti (programming), tuiliti (reasoning).    *)
(***************************************************************************)
EXTENDS Naturals, Sequences, FiniteSets, TLC

VARIABLES
  student_store,    \* dependencies.student_data: list of students
  problem_store,    \* dependencies.problem_data: q_id -> problem record
  faults,           \* kinds of failure the collaborators have shown so far
  GRADING_RESULTS,  \* ai_grading.GRADING_RESULTS: job id -> record
  req,              \* request handler of each submit: pc, mode, student_id,
                    \* and whether its response was returned
  jobpc,            \* position of the job thread of each job
  unit,             \* per job and student: the per-student pool and its futures
  all_results,      \* per job: all_results of run_batch_grading_task
  calls,            \* per job: number of AnswerGrader invocations made
  resp,             \* the last response of get_grading_result
  rubric_cache,     \* lru_cache of get_processed_rubric: key -> rubric
  pollers,          \* browser: per injected script and job, the interval
                    \* and the fetches of its callbacks that are in flight
  sessionStorage,   \* browser: jobs whose key job-completed-<jobId> is set
  alerts,           \* browser: per job, the completion alerts shown
  component_value,  \* streamlit: the value the poller component returns
  session_state,    \* streamlit: poller_last_completion_time_<key>
  reruns,           \* streamlit: per timestamp, the calls of st.rerun()
  page              \* grade_results page: a corrections list as it was
                    \* fetched and as it is after corrections.sort

frontend == <<pollers, sessionStorage, alerts, component_value,
              session_state, reruns, page>>

backend == <<student_store, problem_store, faults, GRADING_RESULTS, req, jobpc,
             unit, all_results, calls, resp, rubric_cache>>

vars == <<backend, frontend>>

-----------------------------------------------------------------------------
(* Bounds of the model *)

MaxJobs == 2        \* submit requests issued by the clients
MaxStudents == 2    \* students in the student store
MaxAnswers == 2     \* answers of one student
MaxWork == 11       \* work of one run: JobCost a job, 1 a pool task
JobCost == 4        \* work of the handler and the job thread of one job
MaxFaults == 1      \* kinds of failure the collaborators show in one run
PoolAnswers == 4    \* answers of the student of PoolSpec
OrderAnswers == 3   \* answers of the student of OrderSpec
OuterStudents == 4  \* students of the store of OuterSpec
MaxPollers == 3     \* poller scripts injected in one browser session
MaxTimestamp == 5   \* completion timestamps the poller component reports
MaxShown == 3       \* corrections of the list the results page sorts
MaxReruns == 3      \* the count of reruns of one timestamp stops here

(* Program constants *)

max_workers == 3
default_max_score == 10

JobIds == 1..MaxJobs
UnknownId == 0

StuIds == <<"s1", "s2", "s3", "s4", "s5">>
QIds == <<"q1", "q2", "q3", "q4", "q5", "q6">>
(* the type of the i-th answer of a student; tuiliti is none of the four
   types of type_mapping *)
QTypes == <<"jisuanti", "tuiliti", "gainianti", "zhengmingti", "bianchengti",
            "jisuanti">>

-----------------------------------------------------------------------------
(* Correction and the values process_student_answer builds *)

Correction(q, t, sc, mx, conf, cm) ==
  [q_id |-> q, type |-> t, score |-> sc, max_score |-> mx,
   confidence |-> conf, comment |-> cm]

type_mapping(answer_type) ==
  CASE answer_type = "gainianti" -> "concept"
    [] answer_type = "jisuanti" -> "calculation"
    [] answer_type = "zhengmingti" -> "proof"
    [] answer_type = "bianchengti" -> "programming"
    [] OTHER -> "concept"

(* the test of line 81 is left out *)
ProblemFound_unchecked(pstore, q) == TRUE

(* lines 75 and 80: problem = problem_store.get(q_id); if not problem *)
ProblemFound(pstore, q) == q \in DOMAIN pstore

MissingProblemCorrection(answer) ==
  Correction(answer.q_id, IF answer.type = "" THEN "gainianti" ELSE answer.type,
             0, default_max_score, 0,
             <<"Problem ", answer.q_id, " not found">>)

(* line 95: problem.get("criterion", "") *)
Criterion(pstore, q) == IF q \in DOMAIN pstore THEN pstore[q].criterion ELSE ""

(* lines 40-45: the memoized function returns its argument *)
get_processed_rubric(q_id, rubric_text) == rubric_text

(* the cache is keyed by the question alone *)
CacheKey_q_id_only(q_id, rubric_text) == <<q_id, "">>

(* line 40: lru_cache makes its key of all the arguments of the call *)
CacheKey(q_id, rubric_text) == <<q_id, rubric_text>>

(* line 40: a call of the memoized function hands out the value stored under
   its key, or computes it.  The model makes fewer than maxsize = 128 keys,
   so that no key is evicted *)
cached_rubric(cache, q_id, rubric_text) ==
  IF CacheKey(q_id, rubric_text) \in DOMAIN cache
  THEN cache[CacheKey(q_id, rubric_text)]
  ELSE get_processed_rubric(q_id, rubric_text)

cache_after(cache, q_id, rubric_text) ==
  IF CacheKey(q_id, rubric_text) \in DOMAIN cache
  THEN cache
  ELSE [k \in DOMAIN cache \cup {CacheKey(q_id, rubric_text)} |->
          IF k = CacheKey(q_id, rubric_text)
          THEN get_processed_rubric(q_id, rubric_text)
          ELSE cache[k]]

UnsupportedCorrection(answer) ==
  Correction(answer.q_id, answer.type, 5, default_max_score, 5,
             <<"Unsupported question type: ", answer.type>>)

(* the Correction of the grader is stored as it was returned *)
GradedCorrection_as_returned(answer, correction) == correction

(* lines 120-172: correction = node(...); correction.type = answer_type *)
GradedCorrection(answer, correction) ==
  [correction EXCEPT !.type = answer.type]

(* the except branch hands out the default Correction of the else branch *)
GradingErrorCorrection_default(answer, e) ==
  Correction(answer.q_id, answer.type, 5, default_max_score, 5,
             <<"Unsupported question type: ", answer.type>>)

GradingErrorCorrection(answer, e) ==
  Correction(answer.q_id, answer.type, 0, default_max_score, 0,
             <<"Grading error: ", e>>)

ProcessingErrorCorrection(answer, e) ==
  Correction(answer.q_id, answer.type, 0, default_max_score, 0,
             <<"Processing error: ", e>>)

(* AnswerGrader (calc_node, concept_node, proof_node, programming_node) is
   an external collaborator: a stub that scores by question. *)
StubScore(q) == IF q = "q1" THEN 10 ELSE 7

AnswerGrader(answer_unit, rubric, max_score) ==
  Correction(answer_unit.q_id, answer_unit.node, StubScore(answer_unit.q_id),
             max_score, 10, <<"ok">>)

GraderErrors == {"timeout"}
LlmError == "llm init failed"
PoolError == "can't start new thread"

-----------------------------------------------------------------------------
(* Futures of a ThreadPoolExecutor and concurrent.futures.as_completed *)

FutResult(v) == [kind |-> "result", value |-> v]
FutException(e) == [kind |-> "exception", text |-> e]

InFlight(u) == {i \in DOMAIN u.task : u.task[i] \in {"running", "hung"}}
(* the collecting loop is left at the first future that is yielded *)
AllYielded_first(u) ==
  \/ u.task = << >>
  \/ \E i \in DOMAIN u.task :
       u.task[i] \in {"returned", "raised", "missing", "llm_raised", "unsupported"}

(* a timeout: a call that hangs is given up *)
AllYielded_timeout(u) ==
  \A i \in DOMAIN u.task :
    u.task[i] \in {"returned", "raised", "missing", "llm_raised", "unsupported",
                   "hung"}

(* the loop runs over the submitted futures without waiting for them *)
Yielded_or_running ==
  {"returned", "raised", "missing", "llm_raised", "unsupported", "running"}

(* a task whose future was yielded keeps what its worker did *)
Yielded == {"returned", "raised", "missing", "llm_raised", "unsupported"}
AllYielded(u) == \A i \in DOMAIN u.task : u.task[i] \in Yielded

(* lines 220-235 and 275-289, the body of the collecting loop:
   future.result() or the fallback Correction *)
Collected(answer, f) ==
  IF f.kind = "result" THEN f.value
  ELSE ProcessingErrorCorrection(answer, f.text)

(* a worker sets the outcome of future i and as_completed, which is waiting,
   yields it: the loop takes the futures in the order they finish.  The list
   belongs to the collecting thread alone, so the append is part of the step *)
FinishTask(u, answers, i, f, how) ==
  [u EXCEPT !.task[i] = how,
            !.corrections = Append(@, Collected(answers[i], f))]

IdleUnit ==
  [pc |-> "idle", task |-> <<>>, corrections |-> <<>>, rubric |-> <<>>]

(* lines 211-219 and 268-274: the pool is opened, one task per answer is
   submitted and as_completed is called.  Spec takes the owner of the pool to
   reach as_completed before a worker ends a task; OrderSpec, below, lets the
   workers run in between *)
OpenPool(answers) ==
  [pc |-> "collecting",
   task |-> [i \in 1..Len(answers) |-> "queued"],
   corrections |-> <<>>,
   rubric |-> [i \in 1..Len(answers) |-> ""]]

-----------------------------------------------------------------------------
(* The stores and the failures of one run *)

Answer(i) == [q_id |-> QIds[i], type |-> QTypes[i], content |-> "x=2"]

Student(k, named, m) ==
  [stu_id |-> IF named THEN StuIds[k] ELSE "",
   stu_ans |-> [i \in 1..m |-> Answer(i)]]

(* n students with m answers each; all of them have a stu_id, or all but
   the first *)
StudentStores ==
  UNION {UNION {{[k \in 1..n |-> Student(k, k \in named, m)] :
                   named \in {1..n, 2..n}} : m \in 0..MaxAnswers} :
         n \in 0..MaxStudents}

(* every answered question has a problem, or every one but q1 *)
ProblemStores(store) ==
  LET asked == {store[s].stu_ans[i].q_id :
                  <<s, i>> \in {sl \in (1..MaxStudents) \X (1..MaxAnswers) :
                                  /\ sl[1] \in DOMAIN store
                                  /\ sl[2] \in DOMAIN store[sl[1]].stu_ans}}
  IN {[q \in present |-> [criterion |-> "full marks for x=2"]] :
        present \in {asked, asked \ {"q1"}}}

AllFaults == {"raise", "hang", "llm", "pool"}

(* a collaborator may fail in a way already seen, or in a new way while
   fewer than MaxFaults kinds were seen *)
MayFail(kind) == kind \in faults \/ Cardinality(faults) < MaxFaults

RequestIds == {"s1"}

Truthy(str) == str # ""

NamedStudents(store) == {s \in DOMAIN store : Truthy(store[s].stu_id)}

(* the first student of the store stands in for a student_id nobody has *)
find_student_or_first(store, student_id) ==
  IF \E s \in DOMAIN store : store[s].stu_id = student_id
  THEN CHOOSE s \in DOMAIN store :
         /\ store[s].stu_id = student_id
         /\ \A t \in DOMAIN store : store[t].stu_id = student_id => s <= t
  ELSE IF store = << >> THEN 0 ELSE 1

(* lines 249-253: the first student whose stu_id is the requested one *)
find_student(store, student_id) ==
  IF \E s \in DOMAIN store : store[s].stu_id = student_id
  THEN CHOOSE s \in DOMAIN store :
         /\ store[s].stu_id = student_id
         /\ \A t \in DOMAIN store : store[t].stu_id = student_id => s <= t
  ELSE 0

-----------------------------------------------------------------------------
(* Job records *)

PendingRecord == [status |-> "pending"]
NotFoundRecord == [status |-> "not_found"]

(* the text is stored under the key error *)
ErrorRecord_error_key(msg) == [status |-> "error", error |-> msg]

ErrorRecord(msg) == [status |-> "error", message |-> msg]
StudentNotFoundRecord(student_id) ==
  ErrorRecord(<<"Student ", student_id, " not found">>)
SingleRecord(student_id, corrections) ==
  [status |-> "completed", student_id |-> student_id,
   corrections |-> corrections]
BatchRecord(results) == [status |-> "completed", results |-> results]

(* the record is stored under the id of the latest job *)
StoreRecord_latest(results, job_id, record) ==
  LET ids == DOMAIN results \cup {job_id}
      latest == CHOOSE k \in ids : \A n \in ids : n <= k
  IN [k \in DOMAIN results \cup {latest} |->
        IF k = latest THEN record ELSE results[k]]

(* GRADING_RESULTS = {job_id: record}: the dict is rebound *)
StoreRecord_rebind(results, job_id, record) == [k \in {job_id} |-> record]

(* GRADING_RESULTS[job_id] = record *)
StoreRecord(results, job_id, record) ==
  [k \in DOMAIN results \cup {job_id} |->
     IF k = job_id THEN record ELSE results[k]]

(* lines 300-305 and 350-355: the handler of an exception that leaves the
   body of the job thread *)
(* the handler stores a fixed text in place of str(e) *)
except_handler_fixed_message(results, job_id, e) ==
  [k \in DOMAIN results \cup {job_id} |->
     IF k = job_id THEN [status |-> "error", message |-> <<"grading failed">>]
     ELSE results[k]]

(* no handler: the exception ends the job thread *)
except_handler_missing(results, job_id, e) == results

except_handler(results, job_id, e) ==
  StoreRecord(results, job_id, ErrorRecord(<<e>>))

(* dict.pop: a terminal record is handed out once and removed *)
results_after_pop(results, job_id) ==
  IF job_id \in DOMAIN results /\ results[job_id].status \in {"completed", "error"}
  THEN [k \in DOMAIN results \ {job_id} |-> results[k]]
  ELSE results

(* dict.setdefault inserts the default it returns *)
results_after_setdefault(results, job_id) ==
  IF job_id \in DOMAIN results THEN results
  ELSE [k \in DOMAIN results \cup {job_id} |->
          IF k = job_id THEN [status |-> "not_found"] ELSE results[k]]

(* dict.get leaves the dict as it is *)
results_after_get(results, job_id) == results

(* GRADING_RESULTS.get(job_id, {"status": "not_found"}) *)
get_result(results, job_id) ==
  IF job_id \in DOMAIN results THEN results[job_id] ELSE NotFoundRecord

Terminal(record) == record.status \in {"completed", "error"}

-----------------------------------------------------------------------------
(* Workload of the run: the clients submit while the work stays in MaxWork *)

RECURSIVE SumOver(_, _)
SumOver(f, S) ==
  IF S = {} THEN 0
  ELSE LET x == CHOOSE y \in S : TRUE IN f[x] + SumOver(f, S \ {x})

BatchWork == SumOver([s \in DOMAIN student_store |->
                        1 + Len(student_store[s].stu_ans)],
                     NamedStudents(student_store))

SingleWork(student_id) ==
  LET s == find_student(student_store, student_id)
  IN IF s = 0 THEN 0 ELSE Len(student_store[s].stu_ans)

JobWork(j) ==
  CASE req[j].mode = "single" -> SingleWork(req[j].student_id)
    [] req[j].mode = "batch" -> BatchWork
    [] OTHER -> 0

Submitted == {j \in JobIds : req[j].pc # "idle"}

WorkSoFar == SumOver([j \in JobIds |-> JobCost + JobWork(j)], Submitted)

-----------------------------------------------------------------------------
(* The browser session and the Streamlit session before the first render *)
PollerIds == 1..MaxPollers
NoValue == 0

IdlePoller == [pc |-> "none", inflight |-> << >>]

FrontendInit ==
  /\ pollers = [p \in PollerIds |-> [j \in JobIds |-> IdlePoller]]
  /\ sessionStorage = {}
  /\ alerts = [j \in JobIds |-> 0]
  /\ component_value = [truthy |-> FALSE, timestamp |-> NoValue]
  /\ session_state = NoValue
  /\ reruns = [t \in 1..MaxTimestamp |-> 0]
  /\ page = [pc |-> "none", fetched |-> << >>, corrections |-> << >>]

-----------------------------------------------------------------------------
Init ==
  /\ student_store \in StudentStores
  /\ problem_store \in ProblemStores(student_store)
  /\ faults = {}
  /\ GRADING_RESULTS = << >>
  /\ req = [j \in JobIds |-> [pc |-> "idle", mode |-> "none",
                              student_id |-> "", returned |-> FALSE]]
  /\ jobpc = [j \in JobIds |-> "unstarted"]
  /\ unit = [j \in JobIds |-> [s \in DOMAIN student_store |-> IdleUnit]]
  /\ all_results = [j \in JobIds |-> << >>]
  /\ calls = [j \in JobIds |-> 0]
  /\ resp = [job_id |-> UnknownId, result |-> [status |-> "none"]]
  /\ rubric_cache = << >>
  /\ FrontendInit

-----------------------------------------------------------------------------
(* Request handlers start_grading and start_batch_grading.  The pc of a
   handler is the line it executes next. *)

(* the thread is started before the pending record is written *)
HandlerNext_thread_first(pc) ==
  CASE pc = "L364" -> "L372"
    [] pc = "L372" -> "L365"
    [] pc = "L365" -> "L374"
    [] pc = "L374" -> "done"
    [] OTHER -> pc

(* the response is returned before the pending record is written *)
HandlerNext_return_first(pc) ==
  CASE pc = "L364" -> "L372"
    [] pc = "L372" -> "L374"
    [] pc = "L374" -> "L365"
    [] pc = "L365" -> "done"
    [] OTHER -> pc

HandlerNext(pc) ==
  CASE pc = "L364" -> "L365"   \* job_id = str(uuid.uuid4())
    [] pc = "L365" -> "L372"   \* GRADING_RESULTS[job_id] = {"status": "pending"}
    [] pc = "L372" -> "L374"   \* thread.start()
    [] pc = "L374" -> "done"   \* return {"job_id": job_id}
    [] OTHER -> pc

FreshId(j) ==
  /\ req[j].pc = "idle"
  /\ \A k \in JobIds : k < j => req[k].pc # "idle"

start_grading(j, student_id) ==
  /\ FreshId(j)
  /\ WorkSoFar + JobCost + SingleWork(student_id) <= MaxWork
  /\ req' = [req EXCEPT ![j] = [pc |-> HandlerNext("L364"), mode |-> "single",
                                student_id |-> student_id,
                                returned |-> FALSE]]
  /\ UNCHANGED <<student_store, problem_store, faults, GRADING_RESULTS, jobpc,
                 unit, all_results, calls, resp, rubric_cache, frontend>>

start_batch_grading(j) ==
  /\ FreshId(j)
  /\ WorkSoFar + JobCost + BatchWork <= MaxWork
  /\ req' = [req EXCEPT ![j] = [pc |-> HandlerNext("L364"), mode |-> "batch",
                                student_id |-> "", returned |-> FALSE]]
  /\ UNCHANGED <<student_store, problem_store, faults, GRADING_RESULTS, jobpc,
                 unit, all_results, calls, resp, rubric_cache, frontend>>

(* lines 365 and 384 *)
WritePending(j) ==
  /\ req[j].pc = "L365"
  /\ GRADING_RESULTS' = StoreRecord(GRADING_RESULTS, j, PendingRecord)
  /\ req' = [req EXCEPT ![j].pc = HandlerNext("L365")]
  /\ UNCHANGED <<student_store, problem_store, faults, jobpc, unit,
                 all_results, calls, resp, rubric_cache, frontend>>

(* lines 368-372 and 391-395 *)
ThreadStart(j) ==
  /\ req[j].pc = "L372"
  /\ jobpc' = [jobpc EXCEPT ![j] = "start"]
  /\ req' = [req EXCEPT ![j].pc = HandlerNext("L372")]
  /\ UNCHANGED <<student_store, problem_store, faults, GRADING_RESULTS, unit,
                 all_results, calls, resp, rubric_cache, frontend>>

(* lines 374 and 397: nothing is awaited, the thread is not joined *)
(* the handler joins the job thread before it returns *)
ResponseReady_join(j) == req[j].pc = "L374" /\ jobpc[j] = "done"

ResponseReady(j) == req[j].pc = "L374"

SubmitReturn(j) ==
  /\ ResponseReady(j)
  /\ req' = [req EXCEPT ![j].pc = HandlerNext("L374"), ![j].returned = TRUE]
  /\ UNCHANGED <<student_store, problem_store, faults, GRADING_RESULTS, jobpc,
                 unit, all_results, calls, resp, rubric_cache, frontend>>

(* lines 399-410 *)
get_grading_result(job_id) ==
  /\ resp' = [job_id |-> job_id, result |-> get_result(GRADING_RESULTS, job_id)]
  /\ GRADING_RESULTS' = results_after_get(GRADING_RESULTS, job_id)
  /\ UNCHANGED <<student_store, problem_store, faults, req, jobpc, unit,
                 all_results, calls, rubric_cache, frontend>>

-----------------------------------------------------------------------------
(* run_grading_task: the job thread of a single-student job *)

StudentOf(j) == find_student(student_store, req[j].student_id)

(* lines 247-272: look the student up; write the error record when there is
   none, else open the pool and submit one task per answer *)
run_grading_task(j) ==
  /\ jobpc[j] = "start"
  /\ req[j].mode = "single"
  /\ LET s == StudentOf(j) IN
       IF s = 0
       THEN /\ GRADING_RESULTS' =
                 StoreRecord(GRADING_RESULTS, j,
                             StudentNotFoundRecord(req[j].student_id))
            /\ jobpc' = [jobpc EXCEPT ![j] = "done"]
            /\ UNCHANGED unit
       ELSE /\ unit' = [unit EXCEPT ![j][s] =
                          OpenPool(student_store[s].stu_ans)]
            /\ jobpc' = [jobpc EXCEPT ![j] = "collecting"]
            /\ UNCHANGED GRADING_RESULTS
  /\ UNCHANGED <<student_store, problem_store, faults, req, all_results,
                 calls, resp, rubric_cache, frontend>>

(* lines 268-272 and 300-305: executor.submit cannot start a worker thread;
   the exception leaves the with block and reaches the handler *)
run_grading_task_raise(j) ==
  /\ jobpc[j] = "start"
  /\ req[j].mode = "single"
  /\ MayFail("pool")
  /\ faults' = faults \cup {"pool"}
  /\ StudentOf(j) # 0
  /\ Len(student_store[StudentOf(j)].stu_ans) > 0
  /\ GRADING_RESULTS' = except_handler(GRADING_RESULTS, j, PoolError)
  /\ jobpc' = [jobpc EXCEPT ![j] = "done"]
  /\ UNCHANGED <<student_store, problem_store, req, unit, all_results,
                 calls, resp, rubric_cache, frontend>>

(* lines 291-296: every future was yielded, the pool is shut down *)
run_grading_task_store(j) ==
  /\ jobpc[j] = "collecting"
  /\ req[j].mode = "single"
  /\ AllYielded(unit[j][StudentOf(j)])
  /\ GRADING_RESULTS' =
       StoreRecord(GRADING_RESULTS, j,
                   SingleRecord(req[j].student_id,
                                unit[j][StudentOf(j)].corrections))
  /\ jobpc' = [jobpc EXCEPT ![j] = "done"]
  /\ UNCHANGED <<student_store, problem_store, faults, req, unit, all_results,
                 calls, resp, rubric_cache, frontend>>

-----------------------------------------------------------------------------
(* process_student_answer, run by a worker of the per-student pool *)

PoolOpen(u) == u.pc = "collecting"

(* a pool that starts a thread for every task *)
CanTake_unbounded(u, i) ==
  /\ u.pc = "collecting"
  /\ i \in DOMAIN u.task
  /\ u.task[i] = "queued"
  /\ \A k \in DOMAIN u.task : k < i => u.task[k] # "queued"

(* a worker takes the oldest queued task; max_workers threads at most *)
CanTake(u, i) ==
  /\ PoolOpen(u)
  /\ i \in DOMAIN u.task
  /\ u.task[i] = "queued"
  /\ \A k \in DOMAIN u.task : k < i => u.task[k] # "queued"
  /\ Cardinality(InFlight(u)) < max_workers

(* lines 99-118: answer_unit and the node chosen by the internal type *)
AnswerUnit(answer) ==
  LET node == type_mapping(answer.type)
      fields ==
        {"q_id", "text", "node"} \cup
        (CASE node = "calculation" -> {"steps"}
           [] node = "proof" -> {"steps"}
           [] node = "programming" -> {"code", "language", "test_cases"}
           [] OTHER -> {})
  IN [f \in fields |->
        CASE f = "q_id" -> answer.q_id
          [] f = "text" -> answer.content
          [] f = "node" -> node
          [] f = "steps" ->
               IF node = "calculation"
               THEN <<[step_no |-> 1, content |-> answer.content,
                       formula |-> ""]>>
               ELSE <<[step_no |-> 1, content |-> answer.content]>>
          [] f = "code" -> answer.content
          [] f = "language" -> "python"
          [] f = "test_cases" -> << >>]

(* answer_unit is the stored answer itself, and the fields are put on it *)
StoredAnswer_aliased(answer, answer_unit) ==
  [f \in DOMAIN answer \cup (DOMAIN answer_unit \ {"node"}) |->
     IF f \in DOMAIN answer THEN answer[f] ELSE answer_unit[f]]

(* lines 100-103: answer_unit is a new dict, so that what lines 124, 148 and
   161-163 put on it leaves the answer of the store as it was *)
StoredAnswer(answer, answer_unit) == answer

KnownNodes == {"calculation", "concept", "proof", "programming"}

(* lines 94-95: rubric_raw = problem.get("criterion", ""), and the rubric
   the memoized function hands out for it *)
RubricRead(answer) ==
  cached_rubric(rubric_cache, answer.q_id,
                Criterion(problem_store, answer.q_id))

(* lines 79-92: the problem is not in the store *)
AnswerProblemMissing(j, s, i) ==
  LET answer == student_store[s].stu_ans[i] IN
  /\ CanTake(unit[j][s], i)
  /\ ~ProblemFound(problem_store, answer.q_id)
  /\ unit' = [unit EXCEPT ![j][s] =
                FinishTask(@, student_store[s].stu_ans, i,
                           FutResult(MissingProblemCorrection(answer)),
                           "missing")]
  /\ UNCHANGED <<student_store, problem_store, faults, GRADING_RESULTS, req,
                 jobpc, all_results, calls, resp, rubric_cache, frontend>>

(* line 117: get_cached_llm raises outside the try block, the future raises *)
AnswerLlmRaise(j, s, i) ==
  LET answer == student_store[s].stu_ans[i] IN
  /\ CanTake(unit[j][s], i)
  /\ ProblemFound(problem_store, answer.q_id)
  /\ MayFail("llm")
  /\ faults' = faults \cup {"llm"}
  /\ unit' = [unit EXCEPT ![j][s] =
                FinishTask([@ EXCEPT !.rubric[i] = RubricRead(answer)],
                           student_store[s].stu_ans, i,
                           FutException(LlmError), "llm_raised")]
  /\ rubric_cache' = cache_after(rubric_cache, answer.q_id,
                                 Criterion(problem_store, answer.q_id))
  /\ UNCHANGED <<student_store, problem_store, GRADING_RESULTS, req,
                 jobpc, all_results, calls, resp, frontend>>

(* lines 119-183: the call of the node of the answer's type, or the default
   Correction of the else branch *)
AnswerGraderCall(j, s, i) ==
  LET answer == student_store[s].stu_ans[i] IN
  /\ CanTake(unit[j][s], i)
  /\ ProblemFound(problem_store, answer.q_id)
  /\ IF AnswerUnit(answer).node \in KnownNodes
     THEN /\ unit' = [unit EXCEPT ![j][s].task[i] = "running",
                                  ![j][s].rubric[i] = RubricRead(answer)]
          /\ calls' = [calls EXCEPT ![j] = @ + 1]
     ELSE /\ unit' = [unit EXCEPT ![j][s] =
                        FinishTask([@ EXCEPT !.rubric[i] = RubricRead(answer)],
                                   student_store[s].stu_ans, i,
                                   FutResult(UnsupportedCorrection(answer)),
                                   "unsupported")]
          /\ UNCHANGED calls
  /\ rubric_cache' = cache_after(rubric_cache, answer.q_id,
                                 Criterion(problem_store, answer.q_id))
  /\ student_store' =
       [student_store EXCEPT ![s].stu_ans[i] =
          StoredAnswer(answer, AnswerUnit(answer))]
  /\ UNCHANGED <<problem_store, faults, GRADING_RESULTS, req,
                 jobpc, all_results, resp, frontend>>

(* lines 130-133, 140-143, 154-157, 169-172: the node returns *)
GraderReturn(j, s, i) ==
  LET answer == student_store[s].stu_ans[i]
      rubric == unit[j][s].rubric[i]
      correction == AnswerGrader(AnswerUnit(answer), rubric, default_max_score)
  IN
  /\ PoolOpen(unit[j][s])
  /\ i \in DOMAIN unit[j][s].task
  /\ unit[j][s].task[i] = "running"
  /\ unit' = [unit EXCEPT ![j][s] =
                FinishTask(@, student_store[s].stu_ans, i,
                           FutResult(GradedCorrection(answer, correction)),
                           "returned")]
  /\ UNCHANGED <<student_store, problem_store, faults, GRADING_RESULTS, req,
                 jobpc, all_results, calls, resp, rubric_cache, frontend>>

(* lines 184-195: the node raises *)
GraderRaise(j, s, i, e) ==
  LET answer == student_store[s].stu_ans[i] IN
  /\ MayFail("raise")
  /\ faults' = faults \cup {"raise"}
  /\ PoolOpen(unit[j][s])
  /\ i \in DOMAIN unit[j][s].task
  /\ unit[j][s].task[i] = "running"
  /\ unit' = [unit EXCEPT ![j][s] =
                FinishTask(@, student_store[s].stu_ans, i,
                           FutResult(GradingErrorCorrection(answer, e)),
                           "raised")]
  /\ UNCHANGED <<student_store, problem_store, GRADING_RESULTS, req,
                 jobpc, all_results, calls, resp, rubric_cache, frontend>>

(* the node never returns: no timeout is set on the call *)
GraderHang(j, s, i) ==
  /\ MayFail("hang")
  /\ faults' = faults \cup {"hang"}
  /\ PoolOpen(unit[j][s])
  /\ i \in DOMAIN unit[j][s].task
  /\ unit[j][s].task[i] = "running"
  /\ unit' = [unit EXCEPT ![j][s].task[i] = "hung"]
  /\ UNCHANGED <<student_store, problem_store, GRADING_RESULTS, req,
                 jobpc, all_results, calls, resp, rubric_cache, frontend>>

-----------------------------------------------------------------------------
(* run_batch_grading_task and process_student_submission *)

(* every student of the store is handed to the outer pool *)
BatchStudents_unfiltered(store) == DOMAIN store

(* line 326: the students handed to the outer pool *)
BatchStudents(store) == NamedStudents(store)

UnitRunning(u) == u.pc = "collecting"

StudentResult(student_id, corrections) ==
  [student_id |-> student_id, corrections |-> corrections]

(* lines 311-330: one task per student is submitted to the outer pool and
   as_completed is called *)
run_batch_grading_task(j) ==
  /\ jobpc[j] = "start"
  /\ req[j].mode = "batch"
  /\ unit' = [unit EXCEPT ![j] =
                [s \in DOMAIN student_store |->
                   IF s \in BatchStudents(student_store)
                   THEN [IdleUnit EXCEPT !.pc = "queued"]
                   ELSE IdleUnit]]
  /\ jobpc' = [jobpc EXCEPT ![j] = "collecting"]
  /\ UNCHANGED <<student_store, problem_store, faults, GRADING_RESULTS, req,
                 all_results, calls, resp, rubric_cache, frontend>>

(* lines 322-327 and 350-355: executor.submit of the outer pool cannot start
   a worker thread; the exception leaves the with block and reaches the
   handler *)
run_batch_grading_task_raise(j) ==
  /\ jobpc[j] = "start"
  /\ req[j].mode = "batch"
  /\ MayFail("pool")
  /\ faults' = faults \cup {"pool"}
  /\ BatchStudents(student_store) # {}
  /\ GRADING_RESULTS' = except_handler(GRADING_RESULTS, j, PoolError)
  /\ jobpc' = [jobpc EXCEPT ![j] = "done"]
  /\ UNCHANGED <<student_store, problem_store, req, unit, all_results,
                 calls, resp, rubric_cache, frontend>>

(* an outer pool that starts a thread for every student *)
CanTakeStudent_unbounded(j, s) ==
  /\ req[j].mode = "batch"
  /\ jobpc[j] = "collecting"
  /\ unit[j][s].pc = "queued"
  /\ \A t \in DOMAIN student_store : t < s => unit[j][t].pc # "queued"

(* a worker of the outer pool takes the oldest queued student *)
CanTakeStudent(j, s) ==
  /\ req[j].mode = "batch"
  /\ jobpc[j] = "collecting"
  /\ unit[j][s].pc = "queued"
  /\ \A t \in DOMAIN student_store : t < s => unit[j][t].pc # "queued"
  /\ Cardinality({t \in DOMAIN student_store : UnitRunning(unit[j][t])})
       < max_workers

(* an entry is appended for a student whose future raised as well *)
FinishStudent_append_always(j, s, outcome, corrections) ==
  /\ unit' = [unit EXCEPT ![j][s].pc = IF outcome = "result" THEN "yielded"
                                        ELSE "raised",
                          ![j][s].corrections = corrections]
  /\ all_results' =
       [all_results EXCEPT ![j] =
          Append(@, [student_id |-> student_store[s].stu_id,
                     corrections |-> corrections])]

(* lines 330-339: the outer future of student s is done and as_completed,
   which is waiting, yields it; a result is appended, an exception logged *)
FinishStudent(j, s, outcome, corrections) ==
  /\ unit' = [unit EXCEPT ![j][s].pc = IF outcome = "result" THEN "yielded"
                                        ELSE "raised",
                          ![j][s].corrections = corrections]
  /\ all_results' =
       IF outcome = "result"
       THEN [all_results EXCEPT ![j] =
               Append(@, StudentResult(student_store[s].stu_id, corrections))]
       ELSE all_results

(* lines 199-219: process_student_submission opens the pool of the student *)
process_student_submission(j, s) ==
  /\ CanTakeStudent(j, s)
  /\ IF Truthy(student_store[s].stu_id)
     THEN /\ unit' = [unit EXCEPT ![j][s] =
                        OpenPool(student_store[s].stu_ans)]
          /\ UNCHANGED all_results
     ELSE /\ unit' = [unit EXCEPT ![j][s].pc = "yielded"]
          /\ UNCHANGED all_results
  /\ UNCHANGED <<student_store, problem_store, faults, GRADING_RESULTS, req,
                 jobpc, calls, resp, rubric_cache, frontend>>

(* lines 211-216: executor.submit cannot start a worker thread and
   process_student_submission raises *)
process_student_submission_raise(j, s) ==
  /\ CanTakeStudent(j, s)
  /\ MayFail("pool")
  /\ faults' = faults \cup {"pool"}
  /\ Len(student_store[s].stu_ans) > 0
  /\ FinishStudent(j, s, "exception", << >>)
  /\ UNCHANGED <<student_store, problem_store, GRADING_RESULTS, req,
                 jobpc, calls, resp, rubric_cache, frontend>>

(* lines 237-241: every future was yielded, the result is returned *)
process_student_submission_return(j, s) ==
  /\ req[j].mode = "batch"
  /\ unit[j][s].pc = "collecting"
  /\ AllYielded(unit[j][s])
  /\ FinishStudent(j, s, "result", unit[j][s].corrections)
  /\ UNCHANGED <<student_store, problem_store, faults, GRADING_RESULTS, req,
                 jobpc, calls, resp, rubric_cache, frontend>>

(* lines 341-345: every student future was yielded *)
run_batch_store(j) ==
  /\ jobpc[j] = "collecting"
  /\ req[j].mode = "batch"
  /\ \A s \in DOMAIN student_store :
       unit[j][s].pc \in {"idle", "yielded", "raised"}
  /\ GRADING_RESULTS' =
       StoreRecord(GRADING_RESULTS, j, BatchRecord(all_results[j]))
  /\ jobpc' = [jobpc EXCEPT ![j] = "done"]
  /\ UNCHANGED <<student_store, problem_store, faults, req, unit, all_results,
                 calls, resp, rubric_cache, frontend>>

-----------------------------------------------------------------------------
(* The clients poll the ids they were given, or an id nobody was given *)
PollableIds == {UnknownId} \cup {j \in JobIds : req[j].returned}

Slots == UNION {{<<s, i>> : i \in DOMAIN student_store[s].stu_ans} :
                  s \in DOMAIN student_store}

Next ==
  \/ \E j \in JobIds : \E student_id \in RequestIds : start_grading(j, student_id)
  \/ \E j \in JobIds : start_batch_grading(j)
  \/ \E j \in JobIds : WritePending(j)
  \/ \E j \in JobIds : ThreadStart(j)
  \/ \E j \in JobIds : SubmitReturn(j)
  \/ \E job_id \in PollableIds : get_grading_result(job_id)
  \/ \E j \in JobIds : run_grading_task(j)
  \/ \E j \in JobIds : run_grading_task_raise(j)
  \/ \E j \in JobIds : run_grading_task_store(j)
  \/ \E j \in JobIds : run_batch_grading_task(j)
  \/ \E j \in JobIds : run_batch_grading_task_raise(j)
  \/ \E j \in JobIds : run_batch_store(j)
  \/ \E j \in JobIds : \E s \in DOMAIN student_store :
       process_student_submission(j, s)
  \/ \E j \in JobIds : \E s \in DOMAIN student_store :
       process_student_submission_raise(j, s)
  \/ \E j \in JobIds : \E s \in DOMAIN student_store :
       process_student_submission_return(j, s)
  \/ \E j \in JobIds : \E sl \in Slots : AnswerProblemMissing(j, sl[1], sl[2])
  \/ \E j \in JobIds : \E sl \in Slots : AnswerLlmRaise(j, sl[1], sl[2])
  \/ \E j \in JobIds : \E sl \in Slots : AnswerGraderCall(j, sl[1], sl[2])
  \/ \E j \in JobIds : \E sl \in Slots : GraderReturn(j, sl[1], sl[2])
  \/ \E j \in JobIds : \E sl \in Slots : \E e \in GraderErrors :
       GraderRaise(j, sl[1], sl[2], e)
  \/ \E j \in JobIds : \E sl \in Slots : GraderHang(j, sl[1], sl[2])

Spec == Init /\ [][Next]_vars

-----------------------------------------------------------------------------
(* Scheduling.  The request handler of a submit runs to its return without
   waiting for anything; SubmitSpec assumes no more than that. *)
HandlerStep(j) == WritePending(j) \/ ThreadStart(j) \/ SubmitReturn(j)

SubmitSpec == Init /\ [][Next]_vars /\ \A j \in JobIds : WF_vars(HandlerStep(j))

(* Every thread of a job that can take a step takes one, and a call of
   AnswerGrader that was made returns, raises or hangs for good. *)
JobStep(j) ==
  \/ HandlerStep(j)
  \/ run_grading_task(j) \/ run_grading_task_store(j)
  \/ run_batch_grading_task(j) \/ run_batch_store(j)
  \/ \E s \in DOMAIN student_store :
        process_student_submission(j, s) \/ process_student_submission_return(j, s)
  \/ \E sl \in Slots :
        \/ AnswerProblemMissing(j, sl[1], sl[2])
        \/ AnswerGraderCall(j, sl[1], sl[2])
        \/ GraderReturn(j, sl[1], sl[2])
        \/ GraderHang(j, sl[1], sl[2])
        \/ \E e \in GraderErrors : GraderRaise(j, sl[1], sl[2], e)

LiveSpec == Init /\ [][Next]_vars /\ \A j \in JobIds : WF_vars(JobStep(j))

-----------------------------------------------------------------------------
(* Properties *)

Record(j) == get_result(GRADING_RESULTS, j)

Tasks(j) == {sl \in Slots : sl[2] \in DOMAIN unit[j][sl[1]].task}

HasTask(j, how) == \E sl \in Tasks(j) : unit[j][sl[1]].task[sl[2]] = how

(* C1: the record of a job changes at most once after it was created, from
   pending to completed or from pending to error; a record that is terminal
   is left as it is by every later step, and no record is removed. *)
C1_StatusChangesOnce ==
  [][\A j \in DOMAIN GRADING_RESULTS :
       \/ get_result(GRADING_RESULTS', j) = GRADING_RESULTS[j]
       \/ /\ GRADING_RESULTS[j] = PendingRecord
          /\ Terminal(get_result(GRADING_RESULTS', j))]_vars

C1_Witness ==
  \E j, k \in JobIds :
    /\ Record(j).status = "completed"
    /\ Record(k).status = "error"
    /\ resp.job_id = j /\ resp.result = Record(j)

(* C2: once the submit call of a job has returned, a poll of the job never
   answers not_found: the record is pending until the job thread has made
   its terminal write and terminal from then on. *)
C2_PendingUntilTerminal ==
  /\ \A j \in JobIds :
       req[j].returned =>
         /\ Record(j).status # "not_found"
         /\ jobpc[j] # "done" => Record(j) = PendingRecord
         /\ jobpc[j] = "done" => Terminal(Record(j))
  /\ resp.job_id \in JobIds =>
       resp.result.status \in {"pending", "completed", "error"}

C2_Witness ==
  \E j \in JobIds :
    /\ resp.job_id = j /\ resp.result = PendingRecord
    /\ HasTask(j, "running")
    /\ HasTask(j, "returned")

(* C3: a submit call returns its job id whatever the job thread does: every
   submit that arrived returns, with no step of grading assumed to happen. *)
C3_SubmitReturns ==
  \A j \in JobIds : (req[j].pc # "idle") ~> req[j].returned

C3_Witness ==
  \E j \in JobIds :
    /\ req[j].returned
    /\ JobWork(j) > 0
    /\ calls[j] = 0
    /\ jobpc[j] = "start"
    /\ Record(j) = PendingRecord


(* C4: under fair scheduling a job whose id was returned reaches a terminal
   status, completed or error, unless one of its AnswerGrader calls neither
   returns nor raises: no failure of an answer, of a student or of the job
   thread leaves the record pending for ever. *)
C4_JobTerminates ==
  \A j \in JobIds :
    req[j].returned ~> (Terminal(Record(j)) \/ HasTask(j, "hung"))

C4_Witness ==
  \E j, k \in JobIds :
    /\ faults = {"pool"}
    /\ req[j].mode = "single" /\ Record(j) = ErrorRecord(<<PoolError>>)
    /\ req[k].mode = "batch" /\ Record(k).status = "completed"
    /\ Len(Record(k).results) < Cardinality(NamedStudents(student_store))

(* C5: a step in which get_grading_result answers leaves GRADING_RESULTS as
   it was, answers with the stored record of a known id and with not_found
   for an id that has no record, without inserting it; the call can be
   answered in every state, whatever grading is in flight. *)
C5_PollReadOnly ==
  /\ [](\A job_id \in PollableIds : ENABLED get_grading_result(job_id))
  /\ [][resp' # resp =>
          /\ GRADING_RESULTS' = GRADING_RESULTS
          /\ resp'.job_id \in DOMAIN GRADING_RESULTS
               => resp'.result = GRADING_RESULTS[resp'.job_id]
          /\ resp'.job_id \notin DOMAIN GRADING_RESULTS
               => /\ resp'.result = [status |-> "not_found"]
                  /\ resp'.job_id \notin DOMAIN GRADING_RESULTS']_vars

C5_Witness ==
  /\ resp.job_id = UnknownId
  /\ resp.result = [status |-> "not_found"]
  /\ UnknownId \notin DOMAIN GRADING_RESULTS
  /\ \E j \in JobIds : HasTask(j, "running") /\ Record(j) = PendingRecord

(* C6: once a poll of a job has answered with a completed or error record,
   the job's stored record, which is what every later poll answers with,
   is that same payload, whatever the other jobs do in between. *)
C6_TerminalPollStable ==
  Terminal(resp.result) => Record(resp.job_id) = resp.result

C6_Witness ==
  \E j, k \in JobIds :
    /\ j # k
    /\ resp.job_id = j /\ Record(j).status = "completed"
    /\ resp.result = Record(j)
    /\ Terminal(Record(k))
    /\ req[k].returned

(* C7: a single-student job whose student_id is no stu_id of the store ends
   with the error record 'Student <id> not found'; it is never completed
   and no AnswerGrader call is made for it. *)
Unmatched(j) ==
  /\ req[j].mode = "single"
  /\ \A s \in DOMAIN student_store : student_store[s].stu_id # req[j].student_id

C7_StudentNotFound ==
  /\ [](\A j \in JobIds :
         Unmatched(j) =>
           /\ calls[j] = 0
           /\ Record(j).status # "completed"
           /\ Tasks(j) = {}
           /\ Terminal(Record(j)) =>
                Record(j) = [status |-> "error",
                             message |-> <<"Student ", req[j].student_id,
                                           " not found">>])
  /\ \A j \in JobIds :
       (Unmatched(j) /\ req[j].returned) ~> (Record(j).status = "error")

C7_Witness ==
  \E j \in JobIds :
    /\ Unmatched(j)
    /\ Len(student_store) = MaxStudents
    /\ Record(j) = [status |-> "error",
                    message |-> <<"Student ", "s1", " not found">>]
    /\ resp.job_id = j /\ resp.result = Record(j)

-----------------------------------------------------------------------------
(* The students a job grades and what the finished record holds for them *)

GradedStudents(j) ==
  IF req[j].mode = "batch"
  THEN {s \in DOMAIN student_store : student_store[s].stu_id # ""}
  ELSE {s \in DOMAIN student_store :
          /\ student_store[s].stu_id = req[j].student_id
          /\ \A t \in DOMAIN student_store :
               student_store[t].stu_id = req[j].student_id => s <= t}

Finished(j) == jobpc[j] = "done" /\ GradedStudents(j) # {}

EntriesOf(j, s) ==
  IF req[j].mode = "batch"
  THEN {k \in DOMAIN Record(j).results :
          Record(j).results[k].student_id = student_store[s].stu_id}
  ELSE {1}

CorrectionsOf(j, s) ==
  IF req[j].mode = "batch"
  THEN Record(j).results[CHOOSE k \in EntriesOf(j, s) : TRUE].corrections
  ELSE Record(j).corrections

CorrectionsFor(j, s, q) ==
  LET cs == CorrectionsOf(j, s)
  IN {cs[k] : k \in {n \in DOMAIN cs : cs[n].q_id = q}}

(* what the stub grader returns for the answer, with the type of the answer *)
ReturnedFor(answer) ==
  [q_id |-> answer.q_id, type |-> answer.type,
   score |-> IF answer.q_id = "q1" THEN 10 ELSE 7,
   max_score |-> 10, confidence |-> 10, comment |-> <<"ok">>]

(* C8: the completed record of a batch job, when no collaborator failed, has
   one entry for each student with a non-empty stu_id and none for the
   others, and the corrections of every entry are as many as the answers of
   the student. *)
C8_BatchShape ==
  \A j \in JobIds :
    (req[j].mode = "batch" /\ jobpc[j] = "done" /\ faults = {}) =>
      /\ Record(j).status = "completed"
      /\ Len(Record(j).results) <= Len(student_store)
      /\ \A k \in DOMAIN Record(j).results :
           Record(j).results[k].student_id # ""
      /\ \A s \in DOMAIN student_store :
           IF student_store[s].stu_id = ""
           THEN \A k \in DOMAIN Record(j).results :
                  Record(j).results[k].student_id # StuIds[s]
           ELSE /\ Cardinality(EntriesOf(j, s)) = 1
                /\ Len(CorrectionsOf(j, s)) = Len(student_store[s].stu_ans)

C8_Witness ==
  \E j \in JobIds :
    /\ req[j].mode = "batch" /\ jobpc[j] = "done" /\ faults = {}
    /\ Len(student_store) = MaxStudents
    /\ Len(Record(j).results) = MaxStudents
    /\ \A k \in DOMAIN Record(j).results :
         Len(Record(j).results[k].corrections) = MaxAnswers

(* C9: when calls of AnswerGrader raise and nothing else fails, the job is
   completed, every graded student has as many corrections as answers, an
   answer whose call raised has a Correction of score 0 with the text of
   the exception in its comment, and an answer whose call returned has the
   Correction the grader returned. *)
C9_GraderFailureIsolated ==
  \A j \in JobIds :
    (Finished(j) /\ faults \subseteq {"raise"}) =>
      /\ Record(j).status = "completed"
      /\ \A s \in GradedStudents(j) :
           /\ Cardinality(EntriesOf(j, s)) = 1
           /\ Len(CorrectionsOf(j, s)) = Len(student_store[s].stu_ans)
           /\ \A i \in DOMAIN student_store[s].stu_ans :
                LET answer == student_store[s].stu_ans[i]
                    got == CorrectionsFor(j, s, answer.q_id)
                IN /\ Cardinality(got) = 1
                   /\ unit[j][s].task[i] = "raised" =>
                        \A c \in got :
                          /\ c.score = 0
                          /\ \E e \in GraderErrors :
                               c.comment = <<"Grading error: ", e>>
                   /\ unit[j][s].task[i] = "returned" =>
                        got = {ReturnedFor(answer)}

C9_Witness ==
  \E j \in JobIds : \E s \in GradedStudents(j) :
    /\ Finished(j)
    /\ Record(j).status = "completed"
    /\ unit[j][s].task = <<"raised", "returned">>
    /\ CorrectionsFor(j, s, "q1") =
         {[q_id |-> "q1", type |-> "jisuanti", score |-> 0, max_score |-> 10,
           confidence |-> 0, comment |-> <<"Grading error: ", "timeout">>]}
    /\ CorrectionsFor(j, s, "q2") = {ReturnedFor(student_store[s].stu_ans[2])}

(* C10: no AnswerGrader call is made for an answer whose q_id is not in the
   problem store; when nothing fails the job is completed, such an answer
   has the Correction with its q_id, score 0, max_score 10, confidence 0 and
   a comment with 'not found', and every other answer of every graded
   student was graded. *)
Answerable(j) ==
  {sl \in Slots :
     /\ sl[1] \in GradedStudents(j)
     /\ student_store[sl[1]].stu_ans[sl[2]].q_id \in DOMAIN problem_store}

C10_MissingProblem ==
  \A j \in JobIds :
    /\ calls[j] <= Cardinality(Answerable(j))
    /\ (Finished(j) /\ faults = {}) =>
         /\ Record(j).status = "completed"
         /\ calls[j] = Cardinality(Answerable(j))
         /\ \A s \in GradedStudents(j) :
              \A i \in DOMAIN student_store[s].stu_ans :
                LET answer == student_store[s].stu_ans[i]
                    got == CorrectionsFor(j, s, answer.q_id)
                IN /\ Cardinality(got) = 1
                   /\ IF answer.q_id \in DOMAIN problem_store
                      THEN got = {ReturnedFor(answer)}
                      ELSE \A c \in got :
                             /\ c.q_id = answer.q_id
                             /\ c.score = 0
                             /\ c.max_score = 10
                             /\ c.confidence = 0
                             /\ \E n \in DOMAIN c.comment :
                                  c.comment[n] = " not found"

C10_Witness ==
  \E j \in JobIds :
    /\ req[j].mode = "batch" /\ Finished(j) /\ faults = {}
    /\ "q1" \notin DOMAIN problem_store
    /\ Len(Record(j).results) = MaxStudents
    /\ calls[j] = MaxStudents
    /\ \A s \in GradedStudents(j) :
         /\ CorrectionsFor(j, s, "q1") =
              {[q_id |-> "q1", type |-> "jisuanti", score |-> 0,
                max_score |-> 10, confidence |-> 0,
                comment |-> <<"Problem ", "q1", " not found">>]}
         /\ CorrectionsFor(j, s, "q2") = {ReturnedFor(student_store[s].stu_ans[2])}

-----------------------------------------------------------------------------
(* C11: in a batch job that is done, a student whose
   process_student_submission raised has no entry in results, every other
   student with a non-empty stu_id has exactly one, and the status is
   completed. *)
RaisedStudents(j) ==
  {s \in DOMAIN student_store : unit[j][s].pc = "raised"}

C11_RaisingStudentLeftOut ==
  \A j \in JobIds :
    (req[j].mode = "batch" /\ jobpc[j] = "done" /\ RaisedStudents(j) # {}) =>
      /\ Record(j).status = "completed"
      /\ \A s \in DOMAIN student_store :
           Cardinality(EntriesOf(j, s)) =
             IF student_store[s].stu_id # "" /\ s \notin RaisedStudents(j)
             THEN 1 ELSE 0

C11_Witness ==
  \E j \in JobIds :
    /\ req[j].mode = "batch" /\ jobpc[j] = "done"
    /\ Len(student_store) = MaxStudents
    /\ RaisedStudents(j) = {1}
    /\ Record(j).status = "completed"
    /\ Len(Record(j).results) = MaxStudents - 1
    /\ Record(j).results[1].student_id = "s2"
    /\ Len(Record(j).results[1].corrections) = MaxAnswers

(* C12: an exception that leaves the body of run_grading_task or of
   run_batch_grading_task ends the job thread with the record
   {status: error, message: str(exception)}; no job thread ends while its
   record is pending. *)
Escapes(j) ==
  /\ jobpc[j] = "start"
  /\ jobpc'[j] = "done"
  /\ ~Unmatched(j)

C12_EscapedExceptionIsError ==
  /\ [](\A j \in JobIds : jobpc[j] = "done" => Terminal(Record(j)))
  /\ [][\A j \in JobIds :
          Escapes(j) =>
            get_result(GRADING_RESULTS', j) =
              [status |-> "error", message |-> <<"can't start new thread">>]]_vars

C12_Witness ==
  \E j, k \in JobIds :
    /\ req[j].mode = "single" /\ req[k].mode = "batch"
    /\ jobpc[j] = "done" /\ jobpc[k] = "done"
    /\ ~Unmatched(j)
    /\ Record(j) = [status |-> "error", message |-> <<"can't start new thread">>]
    /\ Record(k) = Record(j)

-----------------------------------------------------------------------------
(* C13: an answer whose type is none of the four recognized ones, and whose
   problem is in the store, is never handed to AnswerGrader, and the
   Correction collected for it is the default one: score 5 of 10 and a
   comment that names the unsupported type. *)
RecognizedTypes == {"gainianti", "jisuanti", "zhengmingti", "bianchengti"}

Unrecognized(j) ==
  {sl \in Tasks(j) :
     /\ student_store[sl[1]].stu_ans[sl[2]].type \notin RecognizedTypes
     /\ student_store[sl[1]].stu_ans[sl[2]].q_id \in DOMAIN problem_store}

C13_UnsupportedTypeDefault ==
  \A j \in JobIds : \A sl \in Unrecognized(j) :
    LET answer == student_store[sl[1]].stu_ans[sl[2]]
        u == unit[j][sl[1]]
    IN /\ u.task[sl[2]] \notin {"running", "hung", "returned", "raised"}
       /\ \A n \in DOMAIN u.corrections :
            u.corrections[n].q_id = answer.q_id =>
              \/ u.corrections[n].comment[1] = "Processing error: "
              \/ /\ u.corrections[n].score = 5
                 /\ u.corrections[n].max_score = 10
                 /\ u.corrections[n].comment =
                      <<"Unsupported question type: ", answer.type>>

(* C14: every Correction that a fallback branch builds for an answer of the
   store (problem not found, grader raised, future raised, unsupported
   type) has 0 <= score <= max_score and confidence 0. *)
FallbackCorrections(answer) ==
  {MissingProblemCorrection(answer), UnsupportedCorrection(answer)}
  \cup {GradingErrorCorrection(answer, e) : e \in GraderErrors}
  \cup {ProcessingErrorCorrection(answer, LlmError)}

-----------------------------------------------------------------------------
(* One student with more answers than the pool has workers, every problem
   in the store, graded by single-student jobs *)
PoolInit ==
  /\ student_store = <<Student(1, TRUE, PoolAnswers)>>
  /\ problem_store = [q \in {QIds[i] : i \in 1..PoolAnswers} |->
                        [criterion |-> "full marks for x=2"]]
  /\ faults = {}
  /\ GRADING_RESULTS = << >>
  /\ req = [j \in JobIds |-> [pc |-> "idle", mode |-> "none",
                              student_id |-> "", returned |-> FALSE]]
  /\ jobpc = [j \in JobIds |-> "unstarted"]
  /\ unit = [j \in JobIds |-> [s \in DOMAIN student_store |-> IdleUnit]]
  /\ all_results = [j \in JobIds |-> << >>]
  /\ calls = [j \in JobIds |-> 0]
  /\ resp = [job_id |-> UnknownId, result |-> [status |-> "none"]]
  /\ rubric_cache = << >>
  /\ FrontendInit

PoolNext ==
  \/ \E j \in JobIds : \E student_id \in RequestIds : start_grading(j, student_id)
  \/ \E j \in JobIds : WritePending(j)
  \/ \E j \in JobIds : ThreadStart(j)
  \/ \E j \in JobIds : SubmitReturn(j)
  \/ \E job_id \in PollableIds : get_grading_result(job_id)
  \/ \E j \in JobIds : run_grading_task(j)
  \/ \E j \in JobIds : run_grading_task_store(j)
  \/ \E j \in JobIds : \E sl \in Slots : AnswerGraderCall(j, sl[1], sl[2])
  \/ \E j \in JobIds : \E sl \in Slots : GraderReturn(j, sl[1], sl[2])
  \/ \E j \in JobIds : \E sl \in Slots : \E e \in GraderErrors :
       GraderRaise(j, sl[1], sl[2], e)
  \/ \E j \in JobIds : \E sl \in Slots : GraderHang(j, sl[1], sl[2])

PoolSpec == PoolInit /\ [][PoolNext]_vars

(* C15: at every moment at most 3 calls of AnswerGrader are in flight for
   the answers of one student in one job; an answer beyond them stays
   queued until a call has ended. *)
C15_PoolBound ==
  \A j \in JobIds : \A s \in DOMAIN student_store :
    Cardinality({i \in DOMAIN unit[j][s].task :
                   unit[j][s].task[i] \in {"running", "hung"}}) <= 3

C15_Witness ==
  \E j \in JobIds : \E s \in DOMAIN student_store :
    /\ Len(unit[j][s].task) > 3
    /\ unit[j][s].task[1] = "returned"
    /\ \A i \in 2..4 : unit[j][s].task[i] = "running"

-----------------------------------------------------------------------------
(* C16: no step removes a job id from GRADING_RESULTS, and the id of a poll
   that was answered with pending, completed or error has a record in every
   later state. *)
C16_NeverRemoved ==
  /\ [][DOMAIN GRADING_RESULTS \subseteq DOMAIN GRADING_RESULTS']_vars
  /\ [](resp.result.status \in {"pending", "completed", "error"}
          => resp.job_id \in DOMAIN GRADING_RESULTS)

C16_Witness ==
  /\ DOMAIN GRADING_RESULTS = JobIds
  /\ \A j \in JobIds : Terminal(Record(j))
  /\ resp.job_id = 1 /\ resp.result = Record(1)

(* C17: every record is {status: pending}, or {status: completed,
   student_id, corrections} of a single-student job, or {status: completed,
   results} of a batch job, or {status: error, message}, with no other
   field. *)
C17_RecordShapes ==
  \A j \in DOMAIN GRADING_RESULTS :
    LET r == GRADING_RESULTS[j] IN
    /\ "status" \in DOMAIN r
    /\ r.status \in {"pending", "completed", "error"}
    /\ r.status = "pending" => DOMAIN r = {"status"}
    /\ r.status = "error" => DOMAIN r = {"status", "message"}
    /\ (r.status = "completed" /\ req[j].mode = "single") =>
         DOMAIN r = {"status", "student_id", "corrections"}
    /\ (r.status = "completed" /\ req[j].mode = "batch") =>
         DOMAIN r = {"status", "results"}
    /\ r.status = "completed" => req[j].mode \in {"single", "batch"}

C17_Witness ==
  \E j, k \in DOMAIN GRADING_RESULTS :
    /\ req[j].mode = "single" /\ GRADING_RESULTS[j].status = "completed"
    /\ Len(GRADING_RESULTS[j].corrections) > 0
    /\ req[k].mode = "batch" /\ GRADING_RESULTS[k].status = "error"

(* C18: a step of the threads of job j leaves the record of every other job
   as it is, and the record of j becomes terminal only in the step that ends
   the job thread of j. *)
StepOf(j) ==
  \/ req'[j] # req[j]
  \/ jobpc'[j] # jobpc[j]
  \/ unit'[j] # unit[j]
  \/ all_results'[j] # all_results[j]
  \/ calls'[j] # calls[j]

C18_OneWriterPerJob ==
  [][\A j \in JobIds :
       /\ StepOf(j) =>
            \A k \in JobIds \ {j} :
              get_result(GRADING_RESULTS', k) = get_result(GRADING_RESULTS, k)
       /\ (get_result(GRADING_RESULTS', j) # get_result(GRADING_RESULTS, j)
           /\ get_result(GRADING_RESULTS', j).status \in {"completed", "error"})
            => (jobpc[j] # "done" /\ jobpc'[j] = "done")]_vars

C18_Witness ==
  /\ jobpc[1] = "done" /\ jobpc[2] = "done"
  /\ req[1].mode = "batch" /\ req[2].mode = "single"
  /\ Record(1).status = "completed" /\ Record(2).status = "completed"
  /\ Len(Record(1).results) > 0
  /\ Len(Record(2).corrections) > 0

-----------------------------------------------------------------------------
(* C19: a job with a call of AnswerGrader that never returns is never
   completed nor in error, and its job thread never ends; every other job
   whose id was returned still reaches a terminal status unless a call of
   its own hangs. *)
C19_NoTimeout ==
  /\ [](\A j \in JobIds :
         HasTask(j, "hung") =>
           /\ jobpc[j] # "done"
           /\ Record(j).status \notin {"completed", "error"})
  /\ \A k \in JobIds :
       (req[k].returned /\ \E j \in JobIds \ {k} : HasTask(j, "hung"))
         ~> (Record(k).status \in {"completed", "error"} \/ HasTask(k, "hung"))

C19_Witness ==
  /\ HasTask(1, "hung")
  /\ Record(1) = PendingRecord
  /\ resp.job_id = 1 /\ resp.result = PendingRecord
  /\ Record(2).status = "completed"
  /\ HasTask(2, "returned")

(* C20: a completed job has no task queued, running or hung and no student
   that is still being processed, and its payload holds a Correction for
   every task of every student it lists. *)
C20_CompletedAfterAllCalls ==
  \A j \in JobIds :
    Record(j).status = "completed" =>
      /\ \A sl \in Tasks(j) :
           unit[j][sl[1]].task[sl[2]] \notin {"queued", "running", "hung"}
      /\ req[j].mode = "batch" =>
           /\ \A s \in DOMAIN student_store :
                unit[j][s].pc \notin {"queued", "collecting"}
           /\ \A n \in DOMAIN Record(j).results :
                \E s \in DOMAIN student_store :
                  /\ student_store[s].stu_id = Record(j).results[n].student_id
                  /\ Len(Record(j).results[n].corrections) = Len(unit[j][s].task)
      /\ req[j].mode = "single" =>
           \A s \in GradedStudents(j) :
             Len(Record(j).corrections) = Len(unit[j][s].task)

C20_Witness ==
  \E j \in JobIds :
    /\ Record(j).status = "completed"
    /\ req[j].mode = "batch"
    /\ Len(Record(j).results) = MaxStudents
    /\ calls[j] = MaxStudents * MaxAnswers
    /\ \A sl \in Slots : unit[j][sl[1]].task[sl[2]] \in {"returned", "raised"}
    /\ HasTask(j, "raised")

(* what AnswerGrader returns for the answer, before line 172 and its like *)
Returned(answer) ==
  AnswerGrader(AnswerUnit(answer),
               get_processed_rubric(answer.q_id,
                                    Criterion(problem_store, answer.q_id)),
               default_max_score)

(* C23: the Correction stored for an answer of a recognized type whose call
   of AnswerGrader returned is the returned Correction with its type field
   replaced by the declared type of the answer and every other field as
   returned; a batch over the one student s1 with the one answer q1 of type
   jisuanti, with the problem in the store and no failure, ends as completed
   with exactly one entry, for s1, whose corrections are exactly that
   Correction with type jisuanti. *)
C23_TypeOverwritten ==
  \A j \in JobIds :
    (jobpc[j] = "done" /\ Record(j).status = "completed") =>
      /\ \A s \in GradedStudents(j) :
           \A i \in DOMAIN student_store[s].stu_ans :
             LET answer == student_store[s].stu_ans[i]
                 got == CorrectionsFor(j, s, answer.q_id)
             IN (/\ EntriesOf(j, s) # {}
                 /\ answer.type \in RecognizedTypes
                 /\ unit[j][s].task[i] = "returned") =>
                  /\ Cardinality(got) = 1
                  /\ \A c \in got :
                       /\ c.type = answer.type
                       /\ DOMAIN c = DOMAIN Returned(answer)
                       /\ \A f \in DOMAIN c \ {"type"} :
                            c[f] = Returned(answer)[f]
      /\ (/\ req[j].mode = "batch"
          /\ faults = {}
          /\ student_store = <<[stu_id |-> "s1",
                                stu_ans |-> <<[q_id |-> "q1",
                                               type |-> "jisuanti",
                                               content |-> "x=2"]>>]>>
          /\ "q1" \in DOMAIN problem_store) =>
           Record(j) =
             [status |-> "completed",
              results |-> <<[student_id |-> "s1",
                             corrections |->
                               <<[q_id |-> "q1", type |-> "jisuanti",
                                  score |-> 10, max_score |-> 10,
                                  confidence |-> 10,
                                  comment |-> <<"ok">>]>>]>>]

C23_Witness ==
  \E j \in JobIds :
    /\ jobpc[j] = "done" /\ req[j].mode = "batch" /\ faults = {}
    /\ Len(student_store) = 1
    /\ student_store[1].stu_id = "s1"
    /\ Len(student_store[1].stu_ans) = 1
    /\ unit[j][1].task = <<"returned">>
    /\ Returned(student_store[1].stu_ans[1]).type = "calculation"
    /\ Len(Record(j).results) = 1
    /\ Record(j).results[1].corrections[1].type = "jisuanti"

(* the fields a node needs beside q_id and text *)
ExtraFields(answer) ==
  CASE type_mapping(answer.type) = "calculation" -> {"steps"}
    [] type_mapping(answer.type) = "proof" -> {"steps"}
    [] type_mapping(answer.type) = "programming" ->
         {"code", "language", "test_cases"}
    [] OTHER -> {}

(* C25: no step of the grading core changes the student store or the problem
   store; the answer unit of every answer carries q_id, text and the extra
   fields of its node, and the stored answer has none of them beside q_id. *)
C25_StoresOnlyRead ==
  [][/\ student_store' = student_store
     /\ problem_store' = problem_store
     /\ \A sl \in Slots :
          LET answer == student_store'[sl[1]].stu_ans[sl[2]] IN
          /\ DOMAIN answer = {"q_id", "type", "content"}
          /\ {"q_id", "text"} \cup ExtraFields(answer)
               \subseteq DOMAIN AnswerUnit(answer)]_vars

C25_Witness ==
  \E j \in JobIds :
    /\ jobpc[j] = "done" /\ req[j].mode = "batch"
    /\ calls[j] >= 2
    /\ Cardinality(Tasks(j)) >= 2
    /\ \A sl \in Tasks(j) : unit[j][sl[1]].task[sl[2]] = "returned"
    /\ \E sl \in Tasks(j) :
         "steps" \in DOMAIN AnswerUnit(student_store[sl[1]].stu_ans[sl[2]])
    /\ \A sl \in Slots :
         DOMAIN student_store[sl[1]].stu_ans[sl[2]] = {"q_id", "type", "content"}

(* C27: degenerate inputs end as completed, whatever fails: a batch job over
   a store that is empty or has no student with a stu_id ends as completed
   with no results, and a single-student job for a student without answers
   ends as completed with no corrections; while no pool fails, a batch job
   has an entry with no corrections for each student without answers; none
   of them makes a call of AnswerGrader. *)
C27_DegenerateInputs ==
  \A j \in JobIds :
    /\ (req[j].mode = "batch" /\ NamedStudents(student_store) = {}) =>
         /\ calls[j] = 0
         /\ Record(j).status # "error"
         /\ jobpc[j] = "done" =>
              Record(j) = [status |-> "completed", results |-> << >>]
    /\ (/\ req[j].mode = "single"
        /\ StudentOf(j) # 0
        /\ student_store[StudentOf(j)].stu_ans = << >>) =>
         /\ calls[j] = 0
         /\ Record(j).status # "error"
         /\ jobpc[j] = "done" =>
              Record(j) = [status |-> "completed",
                           student_id |-> req[j].student_id,
                           corrections |-> << >>]
    /\ (/\ req[j].mode = "batch"
        /\ "pool" \notin faults
        /\ \A s \in DOMAIN student_store : student_store[s].stu_ans = << >>) =>
         /\ calls[j] = 0
         /\ jobpc[j] = "done" =>
              /\ Record(j).status = "completed"
              /\ Len(Record(j).results) =
                   Cardinality(NamedStudents(student_store))
              /\ \A k \in DOMAIN Record(j).results :
                   Record(j).results[k].corrections = << >>

C27_Witness ==
  \E j \in JobIds :
    /\ req[j].mode = "batch" /\ jobpc[j] = "done"
    /\ student_store # << >>
    /\ NamedStudents(student_store) = {}
    /\ calls[j] = 0
    /\ Record(j) = [status |-> "completed", results |-> << >>]
    /\ resp.job_id = j /\ resp.result = Record(j)

-----------------------------------------------------------------------------
(* The order of the corrections list.  One student, every problem in the
   store, single-student jobs; the workers of the pool run from the moment a
   task is submitted, before the owner of the pool calls as_completed.  The
   unit keeps `finished`, the task numbers in the order their calls ended,
   and `early`, how many had ended when as_completed was called. *)
OrderInit ==
  /\ student_store = <<Student(1, TRUE, OrderAnswers)>>
  /\ problem_store = [q \in {QIds[i] : i \in 1..OrderAnswers} |->
                        [criterion |-> "full marks for x=2"]]
  /\ faults = {}
  /\ GRADING_RESULTS = << >>
  /\ req = [j \in JobIds |-> [pc |-> "idle", mode |-> "none",
                              student_id |-> "", returned |-> FALSE]]
  /\ jobpc = [j \in JobIds |-> "unstarted"]
  /\ unit = [j \in JobIds |-> [s \in DOMAIN student_store |-> IdleUnit]]
  /\ all_results = [j \in JobIds |-> << >>]
  /\ calls = [j \in JobIds |-> 0]
  /\ resp = [job_id |-> UnknownId, result |-> [status |-> "none"]]
  /\ rubric_cache = << >>
  /\ FrontendInit

(* lines 268-272: the tasks are submitted, as_completed is not called yet *)
SubmitPool(answers) ==
  [pc |-> "submitted",
   task |-> [i \in 1..Len(answers) |-> "queued"],
   corrections |-> << >>,
   rubric |-> [i \in 1..Len(answers) |-> ""],
   finished |-> << >>,
   early |-> 0]

(* what future.result() of a call that returned is *)
ResultOf(answer) ==
  GradedCorrection(answer,
    AnswerGrader(AnswerUnit(answer),
                 get_processed_rubric(answer.q_id,
                                      Criterion(problem_store, answer.q_id)),
                 default_max_score))

Perms(S) ==
  {f \in [1..Cardinality(S) -> S] :
     \A a, b \in 1..Cardinality(S) : a # b => f[a] # f[b]}

SeqRange(q) == {q[n] : n \in DOMAIN q}

(* the future that is yielded goes to the front of the list *)
YieldLate_prepend(corrections, c) == <<c>> \o corrections

(* lines 274-277: as_completed, which is waiting, yields the future that
   has just finished and the loop appends its result *)
YieldLate(corrections, c) == Append(corrections, c)

order_run_grading_task(j) ==
  /\ jobpc[j] = "start"
  /\ req[j].mode = "single"
  /\ StudentOf(j) # 0
  /\ unit' = [unit EXCEPT ![j][StudentOf(j)] =
                SubmitPool(student_store[StudentOf(j)].stu_ans)]
  /\ jobpc' = [jobpc EXCEPT ![j] = "submitted"]
  /\ UNCHANGED <<student_store, problem_store, faults, GRADING_RESULTS, req,
                 all_results, calls, resp, rubric_cache, frontend>>

(* a worker takes the oldest queued task and calls the node *)
WorkerStart(j, s, i) ==
  /\ unit[j][s].pc \in {"submitted", "collecting"}
  /\ i \in DOMAIN unit[j][s].task
  /\ unit[j][s].task[i] = "queued"
  /\ \A k \in DOMAIN unit[j][s].task : k < i => unit[j][s].task[k] # "queued"
  /\ Cardinality(InFlight(unit[j][s])) < max_workers
  /\ unit' = [unit EXCEPT ![j][s].task[i] = "running",
                          ![j][s].rubric[i] =
                            RubricRead(student_store[s].stu_ans[i])]
  /\ calls' = [calls EXCEPT ![j] = @ + 1]
  /\ rubric_cache' =
       cache_after(rubric_cache, student_store[s].stu_ans[i].q_id,
                   Criterion(problem_store, student_store[s].stu_ans[i].q_id))
  /\ student_store' =
       [student_store EXCEPT ![s].stu_ans[i] =
          StoredAnswer(@, AnswerUnit(@))]
  /\ UNCHANGED <<problem_store, faults, GRADING_RESULTS, req,
                 jobpc, all_results, resp, frontend>>

(* the node returns and the future is finished; as_completed yields it at
   once when it is already waiting *)
WorkerEnd(j, s, i) ==
  /\ unit[j][s].pc \in {"submitted", "collecting"}
  /\ i \in DOMAIN unit[j][s].task
  /\ unit[j][s].task[i] = "running"
  /\ unit' = [unit EXCEPT
       ![j][s].task[i] = "returned",
       ![j][s].finished = Append(@, i),
       ![j][s].corrections =
          IF unit[j][s].pc = "collecting"
          THEN YieldLate(@, ResultOf(student_store[s].stu_ans[i]))
          ELSE @]
  /\ UNCHANGED <<student_store, problem_store, faults, GRADING_RESULTS, req,
                 jobpc, all_results, calls, resp, rubric_cache, frontend>>

(* line 274: as_completed is called.  The futures that are finished by now
   are kept in a set and yielded first, in the order the set iterates *)
as_completed(j, s) ==
  /\ jobpc[j] = "submitted"
  /\ unit[j][s].pc = "submitted"
  /\ \E order \in Perms(SeqRange(unit[j][s].finished)) :
       unit' = [unit EXCEPT
         ![j][s].pc = "collecting",
         ![j][s].early = Len(unit[j][s].finished),
         ![j][s].corrections =
            [n \in DOMAIN order |-> ResultOf(student_store[s].stu_ans[order[n]])]]
  /\ jobpc' = [jobpc EXCEPT ![j] = "collecting"]
  /\ UNCHANGED <<student_store, problem_store, faults, GRADING_RESULTS, req,
                 all_results, calls, resp, rubric_cache, frontend>>

OrderNext ==
  \/ \E j \in JobIds : \E student_id \in RequestIds : start_grading(j, student_id)
  \/ \E j \in JobIds : WritePending(j)
  \/ \E j \in JobIds : ThreadStart(j)
  \/ \E j \in JobIds : SubmitReturn(j)
  \/ \E job_id \in PollableIds : get_grading_result(job_id)
  \/ \E j \in JobIds : order_run_grading_task(j)
  \/ \E j \in JobIds : \E sl \in Slots : WorkerStart(j, sl[1], sl[2])
  \/ \E j \in JobIds : \E sl \in Slots : WorkerEnd(j, sl[1], sl[2])
  \/ \E j \in JobIds : \E s \in DOMAIN student_store : as_completed(j, s)
  \/ \E j \in JobIds : run_grading_task_store(j)

OrderSpec == OrderInit /\ [][OrderNext]_vars

(* the q_ids of a corrections list, and of the tasks in the order they ended *)
QidsOf(corrections) == [n \in DOMAIN corrections |-> corrections[n].q_id]

CompletionOrder(s, finished) ==
  [n \in DOMAIN finished |-> student_store[s].stu_ans[finished[n]].q_id]

Collecting(j) ==
  {s \in DOMAIN student_store : unit[j][s].pc = "collecting"}

-----------------------------------------------------------------------------
(* The outer pool.  More students than the outer pool has workers; the first
   max_workers of them have as many answers as a pool has workers, the
   later ones have one answer; every problem is in the store; the
   handler of one batch submit has written the pending record, started the
   job thread and returned the job id. *)
OuterInit ==
  /\ student_store = [k \in 1..OuterStudents |->
                        Student(k, TRUE, IF k <= max_workers
                                         THEN max_workers ELSE 1)]
  /\ problem_store = [q \in {QIds[i] : i \in 1..max_workers} |->
                        [criterion |-> "full marks for x=2"]]
  /\ faults = {}
  /\ GRADING_RESULTS = StoreRecord(<< >>, 1, PendingRecord)
  /\ req = [j \in JobIds |->
              IF j = 1
              THEN [pc |-> HandlerNext("L374"), mode |-> "batch",
                    student_id |-> "", returned |-> TRUE]
              ELSE [pc |-> "idle", mode |-> "none",
                    student_id |-> "", returned |-> FALSE]]
  /\ jobpc = [j \in JobIds |-> IF j = 1 THEN "start" ELSE "unstarted"]
  /\ unit = [j \in JobIds |-> [s \in DOMAIN student_store |-> IdleUnit]]
  /\ all_results = [j \in JobIds |-> << >>]
  /\ calls = [j \in JobIds |-> 0]
  /\ resp = [job_id |-> UnknownId, result |-> [status |-> "none"]]
  /\ rubric_cache = << >>
  /\ FrontendInit

OuterNext ==
  \/ \E j \in JobIds : run_batch_grading_task(j)
  \/ \E j \in JobIds : run_batch_store(j)
  \/ \E j \in JobIds : \E s \in DOMAIN student_store :
       process_student_submission(j, s)
  \/ \E j \in JobIds : \E s \in DOMAIN student_store :
       process_student_submission_return(j, s)
  \/ \E j \in JobIds : \E sl \in Slots : AnswerGraderCall(j, sl[1], sl[2])
  \/ \E j \in JobIds : \E sl \in Slots : GraderReturn(j, sl[1], sl[2])

OuterSpec == OuterInit /\ [][OuterNext]_vars

CallsInFlight(j) ==
  {sl \in Tasks(j) : unit[j][sl[1]].task[sl[2]] \in {"running", "hung"}}

(* C22: in one batch job at most 3 students are being processed at a time,
   each with at most 3 calls of AnswerGrader in flight, hence at most 9
   calls of the job are in flight. *)
C22_OuterPoolBound ==
  \A j \in JobIds :
    /\ Cardinality({s \in DOMAIN student_store :
                      unit[j][s].pc = "collecting"}) <= 3
    /\ \A s \in DOMAIN student_store :
         Cardinality({sl \in CallsInFlight(j) : sl[1] = s}) <= 3
    /\ Cardinality(CallsInFlight(j)) <= 9

C22_Witness ==
  \E j \in JobIds :
    /\ Cardinality(CallsInFlight(j)) = 9
    /\ unit[j][OuterStudents].pc = "queued"

-----------------------------------------------------------------------------
(* The rubric cache and a problem store that is edited while jobs run.  Every
   student has a stu_id, every problem is in the store, no collaborator
   fails; the owner of the problem store replaces the criterion of a
   problem at any moment. *)
EditedCriterion == "full marks for x=3"

edit_problem(q) ==
  /\ q \in DOMAIN problem_store
  /\ problem_store[q].criterion # EditedCriterion
  /\ problem_store' = [problem_store EXCEPT ![q].criterion = EditedCriterion]
  /\ UNCHANGED <<student_store, faults, GRADING_RESULTS, req, jobpc, unit,
                 all_results, calls, resp, rubric_cache, frontend>>

RubricInit ==
  /\ Init
  /\ \A s \in DOMAIN student_store : student_store[s].stu_id # ""
  /\ \A s \in DOMAIN student_store :
       \A i \in DOMAIN student_store[s].stu_ans :
         student_store[s].stu_ans[i].q_id \in DOMAIN problem_store

RubricNext ==
  \/ \E j \in JobIds : \E student_id \in RequestIds : start_grading(j, student_id)
  \/ \E j \in JobIds : start_batch_grading(j)
  \/ \E j \in JobIds : WritePending(j)
  \/ \E j \in JobIds : ThreadStart(j)
  \/ \E j \in JobIds : SubmitReturn(j)
  \/ \E j \in JobIds : run_grading_task(j)
  \/ \E j \in JobIds : run_grading_task_store(j)
  \/ \E j \in JobIds : run_batch_grading_task(j)
  \/ \E j \in JobIds : run_batch_store(j)
  \/ \E j \in JobIds : \E s \in DOMAIN student_store :
       process_student_submission(j, s)
  \/ \E j \in JobIds : \E s \in DOMAIN student_store :
       process_student_submission_return(j, s)
  \/ \E j \in JobIds : \E sl \in Slots : AnswerGraderCall(j, sl[1], sl[2])
  \/ \E j \in JobIds : \E sl \in Slots : GraderReturn(j, sl[1], sl[2])
  \/ \E q \in DOMAIN problem_store : edit_problem(q)

RubricSpec == RubricInit /\ [][RubricNext]_vars

(* the answers whose processing has read its rubric *)
RubricTaken(j) == {sl \in Tasks(j) : unit[j][sl[1]].task[sl[2]] # "queued"}

(* the texts the cache holds for the question that are not its criterion *)
StaleTexts(q_id) ==
  {rubric_cache[k] : k \in {key \in DOMAIN rubric_cache :
                              /\ key[1] = q_id
                              /\ rubric_cache[key] #
                                   Criterion(problem_store, q_id)}}

(* the step in which the processing of answer sl of job j reads its rubric *)
ReadsRubric(j, sl) ==
  /\ sl \in Tasks(j)
  /\ unit[j][sl[1]].task[sl[2]] = "queued"
  /\ unit'[j][sl[1]].task[sl[2]] # "queued"

(* C24, as stated: when the criterion of a problem was edited and the cache
   holds the text from before the edit, an answer to that question whose
   processing reads its rubric after the edit is graded against the text
   held in the cache. *)
C24_StaleRubricServed ==
  [][\A j \in JobIds : \A sl \in Slots :
       (ReadsRubric(j, sl) /\
        StaleTexts(student_store[sl[1]].stu_ans[sl[2]].q_id) # {}) =>
         unit'[j][sl[1]].rubric[sl[2]] \in
           StaleTexts(student_store[sl[1]].stu_ans[sl[2]].q_id)]_vars

(* C24, amended: the rubric an answer is graded against is the criterion its
   problem has in the store at the moment the processing of the answer
   reads it, whatever the cache holds for the question. *)
C24_RubricIsCurrent ==
  [][\A j \in JobIds : \A sl \in Slots :
       ReadsRubric(j, sl) =>
         unit'[j][sl[1]].rubric[sl[2]] =
           Criterion(problem_store,
                     student_store[sl[1]].stu_ans[sl[2]].q_id)]_vars

C24_Witness ==
  \E j \in JobIds : \E sl \in RubricTaken(j) :
    LET q_id == student_store[sl[1]].stu_ans[sl[2]].q_id IN
    /\ problem_store[q_id].criterion = EditedCriterion
    /\ StaleTexts(q_id) # {}
    /\ unit[j][sl[1]].rubric[sl[2]] = EditedCriterion

-----------------------------------------------------------------------------
(* The master poller of frontend/utils.py.  One student with one answer,
   graded by single-student jobs that end as completed or, when the pool
   cannot start a thread, as error; every render of a page injects one more
   poller script, and the scripts of earlier renders go on running. *)

(* the alert is shown whatever sessionStorage holds *)
AlertDue_unguarded(storage, jobId) == TRUE

(* line 131: if (!sessionStorage.getItem(completedKey)) *)
AlertDue(storage, jobId) == jobId \notin storage

(* lines 116-122: a script leaves a job alone whose key is set, and sets an
   interval for every other job *)
startPollingForJob(storage, jobId) ==
  IF jobId \in storage
  THEN [pc |-> "skipped", inflight |-> << >>]
  ELSE [pc |-> "polling", inflight |-> << >>]

(* lines 155-174 and 147: st.session_state.jobs holds the ids the submits
   returned; nothing is injected while it is empty *)
inject_pollers_for_active_jobs(p) ==
  LET jobs == {j \in JobIds : req[j].returned} IN
  /\ \A j \in JobIds : pollers[p][j].pc = "none"
  /\ \A o \in PollerIds : o < p => \E j \in JobIds : pollers[o][j].pc # "none"
  /\ jobs # {}
  /\ pollers' = [pollers EXCEPT ![p] =
                   [j \in JobIds |->
                      IF j \in jobs
                      THEN startPollingForJob(sessionStorage, j)
                      ELSE IdlePoller]]
  /\ UNCHANGED <<backend, sessionStorage, alerts, component_value,
                 session_state, reruns, page>>

(* lines 122-125 with get_grading_result: the interval fires, the callback
   fetches grade_result and the backend answers with the record of the job.
   A fetch is answered within the 3000 ms of the interval, so that one
   interval has one fetch in flight at a time; the scripts of several
   renders have theirs in flight together *)
poll(p, j) ==
  /\ pollers[p][j].pc = "polling"
  /\ pollers[p][j].inflight = << >>
  /\ resp' = [job_id |-> j, result |-> get_result(GRADING_RESULTS, j)]
  /\ GRADING_RESULTS' = results_after_get(GRADING_RESULTS, j)
  /\ pollers' = [pollers EXCEPT ![p][j].inflight =
                   Append(@, get_result(GRADING_RESULTS, j).status)]
  /\ UNCHANGED <<student_store, problem_store, faults, req, jobpc, unit,
                 all_results, calls, rubric_cache, sessionStorage, alerts,
                 component_value, session_state, reruns, page>>

Without(q, k) == [n \in 1..(Len(q) - 1) |-> IF n < k THEN q[n] ELSE q[n + 1]]

(* lines 128-139: the callback goes on with the k-th answer in flight; the
   lines run to their end before another callback of the session runs *)
on_response(p, j, k) ==
  /\ k \in DOMAIN pollers[p][j].inflight
  /\ IF pollers[p][j].inflight[k] = "completed"
     THEN /\ pollers' = [pollers EXCEPT ![p][j] =
                           [pc |-> "cleared",
                            inflight |-> Without(@.inflight, k)]]
          /\ IF AlertDue(sessionStorage, j)
             THEN /\ alerts' = [alerts EXCEPT ![j] = @ + 1]
                  /\ sessionStorage' = sessionStorage \cup {j}
             ELSE UNCHANGED <<alerts, sessionStorage>>
     ELSE /\ pollers' = [pollers EXCEPT ![p][j].inflight = Without(@, k)]
          /\ UNCHANGED <<alerts, sessionStorage>>
  /\ UNCHANGED <<backend, component_value, session_state, reruns, page>>

PollerInit ==
  /\ student_store = <<Student(1, TRUE, 1)>>
  /\ problem_store = [q \in {"q1"} |-> [criterion |-> "full marks for x=2"]]
  /\ faults = {}
  /\ GRADING_RESULTS = << >>
  /\ req = [j \in JobIds |-> [pc |-> "idle", mode |-> "none",
                              student_id |-> "", returned |-> FALSE]]
  /\ jobpc = [j \in JobIds |-> "unstarted"]
  /\ unit = [j \in JobIds |-> [s \in DOMAIN student_store |-> IdleUnit]]
  /\ all_results = [j \in JobIds |-> << >>]
  /\ calls = [j \in JobIds |-> 0]
  /\ resp = [job_id |-> UnknownId, result |-> [status |-> "none"]]
  /\ rubric_cache = << >>
  /\ FrontendInit

PollerNext ==
  \/ \E j \in JobIds : \E student_id \in RequestIds : start_grading(j, student_id)
  \/ \E j \in JobIds : WritePending(j)
  \/ \E j \in JobIds : ThreadStart(j)
  \/ \E j \in JobIds : SubmitReturn(j)
  \/ \E j \in JobIds : run_grading_task(j)
  \/ \E j \in JobIds : run_grading_task_raise(j)
  \/ \E j \in JobIds : run_grading_task_store(j)
  \/ \E j \in JobIds : \E sl \in Slots : AnswerGraderCall(j, sl[1], sl[2])
  \/ \E j \in JobIds : \E sl \in Slots : GraderReturn(j, sl[1], sl[2])
  \/ \E p \in PollerIds : inject_pollers_for_active_jobs(p)
  \/ \E p \in PollerIds : \E j \in JobIds : poll(p, j)
  \/ \E p \in PollerIds : \E j \in JobIds : \E k \in DOMAIN pollers[p][j].inflight :
       on_response(p, j, k)

PollerSpec == PollerInit /\ [][PollerNext]_vars

(* C26: the poller stops polling a job once the job has reached a terminal
   state: a callback that is answered completed or error clears the interval
   of its job, so that a job that has ended in error is polled no more. *)
C26_StopsAtTerminal ==
  [][\A p \in PollerIds : \A j \in JobIds : \A k \in DOMAIN pollers[p][j].inflight :
       (/\ on_response(p, j, k)
        /\ pollers[p][j].inflight[k] \in {"completed", "error"}) =>
         pollers'[p][j].pc # "polling"]_vars

(* C29: in one browser session the completion alert of a job is shown at
   most once, however many poller scripts poll the job at the same time; it
   was shown exactly when the key of the job is set, and a script that was
   started after the key was set makes no fetch for the job. *)
C29_AlertOnce ==
  \A j \in JobIds :
    /\ alerts[j] <= 1
    /\ alerts[j] = 1 <=> j \in sessionStorage
    /\ \A p \in PollerIds :
         pollers[p][j].pc = "skipped" =>
           /\ pollers[p][j].inflight = << >>
           /\ j \in sessionStorage

C29_Witness ==
  \E j \in JobIds :
    /\ alerts[j] = 1
    /\ pollers[1][j].pc = "cleared"
    /\ pollers[2][j].pc = "cleared"
    /\ pollers[3][j].pc = "skipped"

-----------------------------------------------------------------------------
(* natural_sort_key and corrections.sort of frontend/pages/grade_results.py.
   A q_id is the sequence of its characters; a corrections list is given by
   the q_ids of its Corrections, in the order the backend stored them. *)

IsDigit(c) == c \in {"0", "1", "2", "3", "4", "5", "6", "7", "8", "9"}

DigitValue(c) ==
  CASE c = "0" -> 0 [] c = "1" -> 1 [] c = "2" -> 2 [] c = "3" -> 3
    [] c = "4" -> 4 [] c = "5" -> 5 [] c = "6" -> 6 [] c = "7" -> 7
    [] c = "8" -> 8 [] c = "9" -> 9

(* ord() of the characters the q_ids of the model are made of *)
CharCode(c) ==
  CASE IsDigit(c) -> 48 + DigitValue(c)
    [] c = "A" -> 65 [] c = "Q" -> 81
    [] c = "a" -> 97 [] c = "q" -> 113

(* str.lower *)
Lower(text) ==
  [n \in DOMAIN text |->
     CASE text[n] = "A" -> "a" [] text[n] = "Q" -> "q" [] OTHER -> text[n]]

RECURSIVE IntOf(_)
IntOf(text) ==
  IF text = << >> THEN 0
  ELSE IntOf(SubSeq(text, 1, Len(text) - 1)) * 10 + DigitValue(text[Len(text)])

(* the longest prefix of text whose characters are digits, or are not *)
RECURSIVE Run(_, _)
Run(text, digits) ==
  IF text = << >> \/ IsDigit(Head(text)) # digits THEN << >>
  ELSE <<Head(text)>> \o Run(Tail(text), digits)

(* re.split('([0-9]+)', s): the texts between the digit runs and, for the
   capturing group, the digit runs themselves *)
RECURSIVE Split(_)
Split(text) ==
  LET head == Run(text, FALSE)
      rest == SubSeq(text, Len(head) + 1, Len(text))
      run == Run(rest, TRUE)
  IN IF rest = << >> THEN <<head>>
     ELSE <<head, run>> \o Split(SubSeq(rest, Len(run) + 1, Len(rest)))

(* str.isdigit of a piece of the split *)
isdigit(text) == text # << >> /\ \A n \in DOMAIN text : IsDigit(text[n])

(* every piece is kept as text *)
KeyPart_text(text) == [int |-> FALSE, n |-> 0, text |-> Lower(text)]

(* line 124: int(text) if text.isdigit() else text.lower() *)
KeyPart(text) ==
  IF isdigit(text)
  THEN [int |-> TRUE, n |-> IntOf(text), text |-> << >>]
  ELSE [int |-> FALSE, n |-> 0, text |-> Lower(text)]

natural_sort_key(q_id) ==
  [n \in DOMAIN Split(q_id) |-> KeyPart(Split(q_id)[n])]

(* < of two str: by the code points, a proper prefix first *)
RECURSIVE LessText(_, _)
LessText(a, b) ==
  IF a = << >> THEN b # << >>
  ELSE IF b = << >> THEN FALSE
  ELSE IF Head(a) = Head(b) THEN LessText(Tail(a), Tail(b))
  ELSE CharCode(Head(a)) < CharCode(Head(b))

(* < of two parts of a key; the parts at one position of two keys are both
   int or both str *)
LessPart(a, b) ==
  IF a.int /\ b.int THEN a.n < b.n ELSE LessText(a.text, b.text)

(* < of two lists *)
RECURSIVE LessKey(_, _)
LessKey(x, y) ==
  IF x = << >> THEN y # << >>
  ELSE IF y = << >> THEN FALSE
  ELSE IF Head(x) = Head(y) THEN LessKey(Tail(x), Tail(y))
  ELSE LessPart(Head(x), Head(y))

(* list.sort is stable: an element goes behind the elements that are not
   greater than it *)
RECURSIVE Insert(_, _)
Insert(sorted, q_id) ==
  IF sorted = << >> THEN <<q_id>>
  ELSE IF LessKey(natural_sort_key(q_id), natural_sort_key(Head(sorted)))
       THEN <<q_id>> \o sorted
       ELSE <<Head(sorted)>> \o Insert(Tail(sorted), q_id)

RECURSIVE sort(_)
sort(corrections) ==
  IF corrections = << >> THEN << >>
  ELSE Insert(sort(SubSeq(corrections, 1, Len(corrections) - 1)),
              corrections[Len(corrections)])

(* the q_ids of the lists of the model *)
Qid ==
  [q2 |-> <<"q", "2">>, q10 |-> <<"q", "1", "0">>, Q2 |-> <<"Q", "2">>,
   q02 |-> <<"q", "0", "2">>, Q3 |-> <<"Q", "3">>, a1Q |-> <<"a", "1", "Q">>]

ShownQids == {Qid[f] : f \in DOMAIN Qid}

(* the lists of the Corrections of one student, in every completion order *)
FetchedLists ==
  UNION {{f \in [1..n -> ShownQids] :
            \A a, b \in 1..n : a # b => f[a] # f[b]} : n \in 0..MaxShown}

(* the page has fetched the record of a job that was completed; nothing
   else of the run is in the state *)
SortInit ==
  /\ student_store = << >>
  /\ problem_store = << >>
  /\ faults = {}
  /\ GRADING_RESULTS = << >>
  /\ req = [j \in JobIds |-> [pc |-> "idle", mode |-> "none",
                              student_id |-> "", returned |-> FALSE]]
  /\ jobpc = [j \in JobIds |-> "unstarted"]
  /\ unit = [j \in JobIds |-> [s \in DOMAIN student_store |-> IdleUnit]]
  /\ all_results = [j \in JobIds |-> << >>]
  /\ calls = [j \in JobIds |-> 0]
  /\ resp = [job_id |-> UnknownId, result |-> [status |-> "none"]]
  /\ rubric_cache = << >>
  /\ pollers = [p \in PollerIds |-> [j \in JobIds |-> IdlePoller]]
  /\ sessionStorage = {}
  /\ alerts = [j \in JobIds |-> 0]
  /\ component_value = [truthy |-> FALSE, timestamp |-> NoValue]
  /\ session_state = NoValue
  /\ reruns = [t \in 1..MaxTimestamp |-> 0]
  /\ \E fetched \in FetchedLists :
       page = [pc |-> "fetched", fetched |-> fetched, corrections |-> fetched]

(* line 202: corrections.sort(key=lambda c: natural_sort_key(c['q_id'])) *)
sort_corrections ==
  /\ page.pc = "fetched"
  /\ page' = [page EXCEPT !.pc = "sorted", !.corrections = sort(@)]
  /\ UNCHANGED <<backend, pollers, sessionStorage, alerts, component_value,
                 session_state, reruns>>

SortSpec == SortInit /\ [][sort_corrections]_vars

Before(list, a, b) ==
  (a \in SeqRange(list) /\ b \in SeqRange(list)) =>
    (CHOOSE n \in DOMAIN list : list[n] = a) <
      (CHOOSE n \in DOMAIN list : list[n] = b)

NumericAware(list) ==
  /\ Before(list, Qid.q2, Qid.q10)
  /\ Before(list, Qid.q02, Qid.q10)
  /\ Before(list, Qid.Q2, Qid.q10)
  /\ Before(list, Qid.q2, Qid.Q3)
  /\ Before(list, Qid.Q2, Qid.Q3)
  /\ Before(list, Qid.a1Q, Qid.q2)

(* C28, as stated: the sorted list is the same for every completion order of
   the grading calls, digit runs compare as integers (q2 before q10) and
   the other parts compare without regard to case. *)
C28_SameOrderAlways ==
  page.pc = "sorted" =>
    /\ \A other \in Perms(SeqRange(page.fetched)) :
         sort(other) = page.corrections
    /\ NumericAware(page.corrections)

(* C28, amended: the sorted list holds the Corrections of the fetched list,
   in the order of their keys, digit runs compared as integers (q2 before
   q10) and the other parts without regard to case; Corrections whose q_ids
   have the same key (q2, Q2 and q02) stay in their completion order, and
   the sorted list is the same for every completion order when no two q_ids
   have the same key. *)
C28_NaturalOrder ==
  page.pc = "sorted" =>
    /\ SeqRange(page.corrections) = SeqRange(page.fetched)
    /\ Len(page.corrections) = Len(page.fetched)
    /\ NumericAware(page.corrections)
    /\ natural_sort_key(Qid.q2) = natural_sort_key(Qid.Q2)
    /\ natural_sort_key(Qid.q2) = natural_sort_key(Qid.q02)
    /\ \A a, b \in DOMAIN page.corrections :
         a < b =>
           /\ ~LessKey(natural_sort_key(page.corrections[b]),
                       natural_sort_key(page.corrections[a]))
           /\ natural_sort_key(page.corrections[a]) =
                natural_sort_key(page.corrections[b]) =>
                  Before(page.fetched, page.corrections[a],
                         page.corrections[b])
    /\ (\A a, b \in SeqRange(page.fetched) :
          a # b => natural_sort_key(a) # natural_sort_key(b)) =>
         \A other \in Perms(SeqRange(page.fetched)) :
           sort(other) = page.corrections

C28_Witness ==
  /\ page.pc = "sorted"
  /\ page.fetched = <<Qid.q10, Qid.Q3, Qid.q2>>
  /\ page.corrections = <<Qid.q2, Qid.Q3, Qid.q10>>

-----------------------------------------------------------------------------
(* poll_and_rerun of frontend/poller_component.  The script of the page runs
   again and again, by a rerun or by anything else the user does; the poller
   component reports the time of a completion, and a later report never has
   an earlier time.  A component that is mounted anew returns its default,
   None; the timestamp field of that value is the time of the last report,
   which poll_and_rerun does not read. *)

(* the component reports a completion: a value with a timestamp *)
component_reports(t) ==
  /\ t >= component_value.timestamp
  /\ t > component_value.timestamp \/ ~component_value.truthy
  /\ component_value' = [truthy |-> TRUE, timestamp |-> t]
  /\ UNCHANGED <<backend, pollers, sessionStorage, alerts, session_state,
                 reruns, page>>

(* the component is mounted anew and returns default=None *)
component_resets ==
  /\ component_value.truthy
  /\ component_value' = [component_value EXCEPT !.truthy = FALSE]
  /\ UNCHANGED <<backend, pollers, sessionStorage, alerts, session_state,
                 reruns, page>>

(* st.rerun() is called for every truthy value *)
RerunDue_always(value, last_completion_time) == value.truthy

(* lines 26-30: if component_value: ... if component_value.get("timestamp")
   != last_completion_time *)
RerunDue(value, last_completion_time) ==
  value.truthy /\ value.timestamp # last_completion_time

(* lines 18-34: one run of the script of the page through poll_and_rerun *)
poll_and_rerun ==
  /\ IF RerunDue(component_value, session_state)
     THEN /\ session_state' = component_value.timestamp
          /\ reruns' = [reruns EXCEPT ![component_value.timestamp] =
                          IF @ < MaxReruns THEN @ + 1 ELSE @]
     ELSE UNCHANGED <<session_state, reruns>>
  /\ UNCHANGED <<backend, pollers, sessionStorage, alerts, component_value,
                 page>>

RerunNext ==
  \/ \E t \in 1..MaxTimestamp : component_reports(t)
  \/ component_resets
  \/ poll_and_rerun

RerunSpec == PollerInit /\ [][RerunNext]_vars

(* C30: poll_and_rerun calls st.rerun() at most once for each timestamp the
   component reports: a run of the script reruns only when the value of the
   component is truthy and its timestamp is not the stored one, the
   timestamp is stored before the rerun, and the runs that follow do not
   rerun while the component returns the same value. *)
C30_RerunOncePerTimestamp ==
  /\ \A t \in 1..MaxTimestamp : reruns[t] <= 1
  /\ \A t \in 1..MaxTimestamp : reruns[t] = 1 => t <= session_state
  /\ session_state # NoValue =>
       (reruns[session_state] = 1 /\ session_state <= component_value.timestamp)
  /\ (component_value.truthy /\ session_state = component_value.timestamp) =>
       ~RerunDue(component_value, session_state)

C30_Witness ==
  /\ component_value = [truthy |-> TRUE, timestamp |-> MaxTimestamp]
  /\ session_state = MaxTimestamp
  /\ \A t \in 1..MaxTimestamp : reruns[t] = 1

====
